---- MODULE Spec2Model ----
(***************************************************************************)
(* A model of the WaveSpeed JavaScript client (src/src/index.ts): the      *)
(* transport layer fetchWithTimeout (deadline, retry, backoff) and the     *)
(* Prediction record with its wait / reload polling loop.                  *)
(*                                                                         *)
(* JavaScript runs one macrotask at a time and runs the continuations of   *)
(* settled promises (microtasks) before the next macrotask.  Each action   *)
(* below is therefore one macrotask together with every continuation it    *)
(* resumes: a call made by the application, the arrival of an HTTP         *)
(* response, the failure of an HTTP call, or the firing of a timer.        *)
(* Wall-clock time is abstracted: an armed timer may fire at any moment.   *)
(***************************************************************************)
EXTENDS Integers, Sequences, FiniteSets, TLC

VARIABLES
    client,   \* the WaveSpeed instance: apiKey, baseUrl, pollInterval, timeout
    call,     \* the frame of the fetchWithTimeout call
    pred,     \* the fields of the Prediction object wait / reload are called on
    waiter,   \* the promise and closure state of the wait() call
    snaps,    \* history: the snapshots the reloads of the wait() call parsed
    app       \* the application's call: new WaveSpeed, create, run or reload

vars == <<client, call, pred, waiter, snaps, app>>

-----------------------------------------------------------------------------
(* JavaScript values.  An optional value is a tuple: <<>> is undefined and  *)
(* <<v>> is the value v, so that values of different kinds stay comparable. *)

Undefined == <<>>

Some(v) == <<v>>

Get(o) == o[1]

\* JavaScript truthiness: undefined, 0 and "" are falsy.
FalsyNumber(o) == o = Undefined \/ o = Some(0)

FalsyString(o) == o = Undefined \/ o = Some("")

\* a || b, for numbers and for strings
OrNumber(a, b) == IF FalsyNumber(a) THEN b ELSE a

OrString(a, b) == IF FalsyString(a) THEN b ELSE a

\* String.prototype.toUpperCase on the method names the model uses.
toUpperCase(s) ==
    CASE s = "get" -> "GET"
      [] s = "post" -> "POST"
      [] OTHER -> s

-----------------------------------------------------------------------------
(* Bounds of the model.                                                     *)

\* The largest per-call maxRetries option the callers of the model pass.
MaxRetriesOpt == 2

\* Math.random() is drawn from {0/RandomDen, ..., (RandomDen-1)/RandomDen}.
RandomDen == 2

\* The largest number of reloads one wait() call is followed through.
MaxPolls == 3

\* The largest number of reloads the wait() of a run() is followed through.
MaxRunPolls == 2

\* The largest number of reload() calls the application makes in a row.
MaxReloads == 2

-----------------------------------------------------------------------------
(* Program constants.                                                       *)

DefaultMaxRetries == 3

initialBackoff == 1000

\* Seconds are kept in tenths of a second, so that the default poll interval
\* of 0.5 s is an integer; TenthsToMs is the code's "* 1000" in that unit.
DefaultPollInterval == 5

DefaultTimeout == 1200

TenthsToMs(t) == t * 100

DefaultBaseUrl == "https://api.wavespeed.ai/api/v3/"

-----------------------------------------------------------------------------
(* The client (WaveSpeed instance).                                         *)

\* new URL(rel, base) throws a TypeError when base is no absolute URL.
UrlParses(base) == base # "not a url"

\* path.startsWith('/') ? path.substring(1) : path, a path being a sequence
\* of characters / segments.
stripLeadingSlash(path) ==
    IF Len(path) > 0 /\ path[1] = "/" THEN SubSeq(path, 2, Len(path)) ELSE path

Clients ==
    { [apiKey |-> "key", baseUrl |-> b, pollInterval |-> DefaultPollInterval,
       timeout |-> DefaultTimeout] : b \in {DefaultBaseUrl, "not a url"} }

-----------------------------------------------------------------------------
(* fetchWithTimeout: src/src/index.ts 165-253.                              *)

Statuses == {200, 404, 429, 503}

\* Response.ok
ok(status) == status >= 200 /\ status <= 299

\* The errors a fetch() call rejects with, besides the AbortError of a
\* deadline: a network failure (TypeError) or any other Error.
FetchErrors == {"TypeError", "Error"}

NoError == ""

\* shouldRetry without the method test: every 5xx is retried.
shouldRetryAnyMethod(method, status) == status = 429 \/ status >= 500

\* shouldRetry with the method test applied to 429 as well.
shouldRetryGetOnly(method, status) ==
    LET m == toUpperCase(Get(OrString(method, Some("GET"))))
    IN  m = "GET" /\ (status = 429 \/ status >= 500)

\* shouldRetry, lines 190-195
shouldRetry(method, status) ==
    LET m == toUpperCase(Get(OrString(method, Some("GET"))))
    IN  status = 429 \/ (m = "GET" /\ status >= 500)

\* The backoff without the exponential part: the initial value every time.
_getBackoffTimeConstant(retryCount, initial, r) ==
    LET backoff == initial
    IN  [num |-> backoff * (2 * RandomDen) + r * backoff, den |-> 2 * RandomDen]

\* The backoff doubling from the initial value: initial * 2^(retryCount - 1).
_getBackoffTimeFromInitial(retryCount, initial, r) ==
    LET backoff == initial * (2 ^ (retryCount - 1))
    IN  [num |-> backoff * (2 * RandomDen) + r * backoff, den |-> 2 * RandomDen]

\* _getBackoffTime, lines 262-266, with Math.random() = r / RandomDen.  The
\* result is a rational number of milliseconds, kept as num / den.
_getBackoffTime(retryCount, initial, r) ==
    LET backoff == initial * (2 ^ retryCount)
    IN  [num |-> backoff * (2 * RandomDen) + r * backoff, den |-> 2 * RandomDen]

\* lines 168-182: the headers of the request; the caller's headers are
\* spread last.
Merge(f, g) ==
    [k \in DOMAIN f \cup DOMAIN g |-> IF k \in DOMAIN g THEN g[k] ELSE f[k]]

composeHeaders(cl, options) ==
    LET auth == [Authorization |-> "Bearer " \o cl.apiKey]
        json == [Authorization |-> "Bearer " \o cl.apiKey,
                 contentType |-> "application/json"]
        own  == IF options.headers = Undefined THEN <<>> ELSE Get(options.headers)
    IN  IF options.isUpload = Some(TRUE) THEN Merge(auth, own) ELSE Merge(json, own)

\* lines 184-185: const maxRetries = options.maxRetries || 3
resolveMaxRetries(options) == Get(OrNumber(options.maxRetries, Some(DefaultMaxRetries)))

\* line 166: const { timeout = this.timeout * 1000, ...fetchOptions } = options
resolveTimeout(cl, options) ==
    IF options.timeout = Undefined THEN TenthsToMs(cl.timeout) ELSE Get(options.timeout)

\* RequestOptions, lines 31-36, with the RequestInit fields the code reads.
Options(method, maxRetries, timeout, isUpload, headers) ==
    [method |-> method, maxRetries |-> maxRetries, timeout |-> timeout,
     isUpload |-> isUpload, headers |-> headers, body |-> Undefined,
     webhook |-> Undefined]

NoOptions == Options(Undefined, Undefined, Undefined, Undefined, Undefined)

IdleCall ==
    [pc |-> "idle", path |-> <<>>, options |-> NoOptions, headers |-> <<>>,
     timeout |-> 0, maxRetries |-> 0, retryCount |-> 0,
     iter |-> 0, attempts |-> 0, timers |-> {}, aborted |-> FALSE, aborts |-> 0,
     backoffTimer |-> Undefined, slept |-> Undefined, request |-> Undefined,
     hist |-> <<>>, result |-> Undefined]

\* What one loop iteration ended with: a response status (Received) or the
\* name of the error caught (Failed, with no status).
Outcome(status, error) == [status |-> status, error |-> error]

Received(status) == Outcome(status, NoError)

Failed(name) == Outcome(0, name)

\* The loop without its finally block: no timer is ever cleared.
clearTimeoutNever(c) == c.timers

\* lines 249-251: finally { clearTimeout(timeoutId) } of the current iteration
clearTimeout(c) == {t \in c.timers : t.id # c.iter}

\* lines 216-226 and 234-243: retryCount++, compute the backoff and sleep.
\* The finally block has not run yet: the deadline timer stays as it is.
retryAfterBackoff(c, r) ==
    [c EXCEPT !.pc = "backoff",
              !.retryCount = c.retryCount + 1,
              !.backoffTimer = Some(_getBackoffTime(c.retryCount + 1, initialBackoff, r))]

\* The catch block's test without the network failures.
retryableErrorAbortOnly(name) == name = "AbortError"

\* lines 230-231: the errors the catch block retries
retryableError(name) == name = "AbortError" \/ name = "TypeError"

\* The catch block throwing a new Error in place of the one it caught.
catchErrorWrapped(c, e, r) ==
    LET c1 == [c EXCEPT !.hist = Append(c.hist, Failed(e.name))]
    IN  IF retryableError(e.name) /\ c1.retryCount < c1.maxRetries
        THEN retryAfterBackoff(c1, r)
        ELSE [c1 EXCEPT !.pc = "thrown",
                        !.result = Some([kind |-> "error", name |-> "Error", id |-> e.id,
                                         status |-> 0, body |-> Undefined,
                                         message |-> Undefined]),
                        !.timers = clearTimeout(c1)]

\* The catch block with a budget of its own: it counts the errors caught so
\* far, not the retries the response branch has already used.
catchErrorOwnBudget(c, e, r) ==
    LET c1 == [c EXCEPT !.hist = Append(c.hist, Failed(e.name))]
        caught == Cardinality({i \in 1..Len(c.hist) : c.hist[i].error # NoError})
    IN  IF retryableError(e.name) /\ caught < c1.maxRetries
        THEN retryAfterBackoff(c1, r)
        ELSE [c1 EXCEPT !.pc = "thrown",
                        !.result = Some([kind |-> "error", name |-> e.name, id |-> e.id,
                                         status |-> 0, body |-> Undefined,
                                         message |-> Undefined]),
                        !.timers = clearTimeout(c1)]

\* lines 228-248: the catch block, for the error e = [name, id]
catchError(c, e, r) ==
    LET c1 == [c EXCEPT !.hist = Append(c.hist, Failed(e.name))]
    IN  IF retryableError(e.name) /\ c1.retryCount < c1.maxRetries
        THEN retryAfterBackoff(c1, r)
        ELSE [c1 EXCEPT !.pc = "thrown",
                        !.result = Some([kind |-> "error", name |-> e.name, id |-> e.id,
                                         status |-> 0, body |-> Undefined,
                                         message |-> Undefined]),
                        !.timers = clearTimeout(c1)]

\* The loop with one AbortController made before it: every attempt runs on
\* the same signal, and an abort is never undone.
beginAttemptSharedController(c, cl, r) ==
    LET it == c.iter + 1
        c1 == [c EXCEPT !.iter = it,
                        !.timers = c.timers \cup {[id |-> it, delay |-> c.timeout]},
                        !.backoffTimer = Undefined]
    IN  IF UrlParses(cl.baseUrl)
        THEN [c1 EXCEPT !.pc = "inflight",
                        !.attempts = c.attempts + 1,
                        !.request = Some([base |-> cl.baseUrl,
                                          path |-> stripLeadingSlash(c.path),
                                          method |-> c.options.method,
                                          body |-> c.options.body,
                                          headers |-> c.headers,
                                          signal |-> 1])]
        ELSE catchError(c1, [name |-> "TypeError", id |-> it], r)

\* lines 197-209: the top of the loop, up to the await of fetch().  A new
\* AbortController, the deadline timer, the URL, and the HTTP call.
beginAttempt(c, cl, r) ==
    LET it == c.iter + 1
        c1 == [c EXCEPT !.iter = it, !.aborted = FALSE,
                        !.timers = c.timers \cup {[id |-> it, delay |-> c.timeout]},
                        !.backoffTimer = Undefined]
    IN  IF UrlParses(cl.baseUrl)
        THEN [c1 EXCEPT !.pc = "inflight",
                        !.attempts = c.attempts + 1,
                        !.request = Some([base |-> cl.baseUrl,
                                          path |-> stripLeadingSlash(c.path),
                                          method |-> c.options.method,
                                          body |-> c.options.body,
                                          headers |-> c.headers,
                                          signal |-> it])]
        ELSE catchError(c1, [name |-> "TypeError", id |-> it], r)

\* lines 165-209: the call, up to its first await
fetchWithTimeout(cl, path, options, r) ==
    beginAttempt([IdleCall EXCEPT !.path = path, !.options = options,
                                  !.headers = composeHeaders(cl, options),
                                  !.timeout = resolveTimeout(cl, options),
                                  !.maxRetries = resolveMaxRetries(options)],
                 cl, r)

\* The budget test of line 212 off by one: retryCount > maxRetries.
onResponseOffByOne(c, status, body, r) ==
    LET c1 == [c EXCEPT !.hist = Append(c.hist, Received(status))]
    IN  IF ok(status) \/ ~shouldRetry(c.options.method, status)
           \/ c.retryCount > c.maxRetries
        THEN [c1 EXCEPT !.pc = "returned",
                        !.result = Some([kind |-> "response", name |-> NoError,
                                         id |-> c.iter, status |-> status, body |-> body,
                                         message |-> Undefined]),
                        !.timers = clearTimeout(c1)]
        ELSE retryAfterBackoff(c1, r)

\* Line 212 without the shouldRetry test: every non-ok response is retried.
onResponseRetryAll(c, status, body, r) ==
    LET c1 == [c EXCEPT !.hist = Append(c.hist, Received(status))]
    IN  IF ok(status) \/ c.retryCount >= c.maxRetries
        THEN [c1 EXCEPT !.pc = "returned",
                        !.result = Some([kind |-> "response", name |-> NoError,
                                         id |-> c.iter, status |-> status, body |-> body,
                                         message |-> Undefined]),
                        !.timers = clearTimeout(c1)]
        ELSE retryAfterBackoff(c1, r)

\* lines 206-226: fetch() resolved with a response
onResponse(c, status, body, r) ==
    LET c1 == [c EXCEPT !.hist = Append(c.hist, Received(status))]
    IN  IF ok(status) \/ ~shouldRetry(c.options.method, status)
           \/ c.retryCount >= c.maxRetries
        THEN [c1 EXCEPT !.pc = "returned",
                        !.result = Some([kind |-> "response", name |-> NoError,
                                         id |-> c.iter, status |-> status, body |-> body,
                                         message |-> Undefined]),
                        !.timers = clearTimeout(c1)]
        ELSE retryAfterBackoff(c1, r)

\* fetch() rejected
onReject(c, name, r) == catchError(c, [name |-> name, id |-> c.iter], r)

\* line 200: the deadline timer t fired: controller.abort().  A fetch() in
\* flight on that controller's signal rejects with an AbortError.
onDeadline(c, t, r) ==
    LET c1 == [c EXCEPT !.timers = c.timers \ {t},
                        !.aborted = (t.id = c.iter) \/ c.aborted,
                        !.aborts = c.aborts + 1]
    IN  IF c.pc = "inflight" /\ t.id = c.iter
        THEN catchError(c1, [name |-> "AbortError", id |-> c.iter], r)
        ELSE c1

\* A backoff sleep whose timer callback never resolves the awaited promise:
\* the timer is spent and the loop stays where it is.
afterBackoffNeverResumes(c, cl, r) ==
    [c EXCEPT !.backoffTimer = Undefined]

\* lines 226/243 then 249-251 and 197: the backoff sleep is over; the finally
\* block clears the deadline timer and the loop starts the next iteration.
afterBackoff(c, cl, r) ==
    beginAttempt([c EXCEPT !.timers = clearTimeout(c), !.slept = c.backoffTimer], cl, r)

Settled(c) == c.pc \in {"returned", "thrown"}

-----------------------------------------------------------------------------
(* The callers of the transport layer in Spec.                              *)

Methods == {Undefined, Some("GET"), Some("get"), Some("POST"), Some("DELETE")}

MaxRetriesOpts == {Undefined} \cup {Some(n) : n \in 0..MaxRetriesOpt}

CallOptions ==
    { Options(m, n, Undefined, Undefined, Undefined) :
        m \in Methods, n \in MaxRetriesOpts }
    \cup
    { Options(m, Undefined, t, u, h) :
        m \in {Undefined, Some("POST")}, t \in {Undefined, Some(100)},
        u \in {Undefined, Some(TRUE)},
        h \in {Undefined, Some([xTrace |-> "1"]),
               Some([Authorization |-> "Bearer other"])} }

Paths == { <<"/", "test-path">>, <<"test-path">> }

Randoms == 0..(RandomDen - 1)

NoBody == Undefined

IdlePred == <<>>

\* No call of the application besides the one the specification follows.
IdleApp ==
    [op |-> "none", pc |-> "idle", result |-> Undefined, calls |-> 0,
     created |-> Undefined, sent |-> [first |-> Undefined, later |-> {}],
     service |-> Undefined, args |-> Undefined, tasks |-> <<>>]

\* The wait() call before it is made: no promise, no reload, no timer.
IdleWaiter ==
    [pc |-> "idle", inFlight |-> 0, timers |-> 0, delay |-> 0,
     reloads |-> 0, settles |-> 0, result |-> Undefined]

Init ==
    /\ client \in Clients
    /\ call = IdleCall
    /\ pred = IdlePred
    /\ waiter = IdleWaiter
    /\ snaps = <<>>
    /\ app = IdleApp

Call ==
    /\ call.pc = "idle"
    /\ \E p \in Paths, o \in CallOptions, r \in Randoms :
         call' = fetchWithTimeout(client, p, o, r)
    /\ UNCHANGED <<client, pred, waiter, snaps, app>>

Respond ==
    /\ call.pc = "inflight"
    /\ \E s \in Statuses, r \in Randoms : call' = onResponse(call, s, NoBody, r)
    /\ UNCHANGED <<client, pred, waiter, snaps, app>>

Reject ==
    /\ call.pc = "inflight"
    /\ \E e \in FetchErrors, r \in Randoms : call' = onReject(call, e, r)
    /\ UNCHANGED <<client, pred, waiter, snaps, app>>

Deadline ==
    /\ \E t \in call.timers, r \in Randoms : call' = onDeadline(call, t, r)
    /\ UNCHANGED <<client, pred, waiter, snaps, app>>

BackoffElapsed ==
    /\ call.pc = "backoff"
    /\ \E r \in Randoms : call' = afterBackoff(call, client, r)
    /\ UNCHANGED <<client, pred, waiter, snaps, app>>

Next == Call \/ Respond \/ Reject \/ Deadline \/ BackoffElapsed

Spec == Init /\ [][Next]_vars

-----------------------------------------------------------------------------
(* Prediction: src/src/index.ts 41-114.                                     *)

\* The data object of a response envelope; every field may be missing.
Data(id, status, outputs, nsfw, error, executionTime) ==
    [id |-> id, model |-> Some("wavespeed-ai/flux-dev"), status |-> status,
     input |-> Some("prompt"), outputs |-> outputs,
     urls |-> Some("get-url"), has_nsfw_contents |-> nsfw,
     created_at |-> Some("2023-01-01T00:00:00Z"),
     error |-> error, executionTime |-> executionTime]

Snapshots ==
    { Data(Some("p1"), Some("processing"), Some(<<>>), Some(<<>>), Undefined, Undefined),
      Data(Some("p1"), Some("created"), Undefined, Undefined, Undefined, Undefined),
      Data(Some("p1"), Some("completed"), Some(<<"url1">>), Some(<<FALSE>>),
           Undefined, Some(5000)),
      Data(Some("p1"), Some("failed"), Undefined, Undefined, Some("boom"), Some(7)),
      Data(Some("p2"), Some("completed"), Some(<<"url2">>), Some(<<TRUE>>),
           Undefined, Some(9)),
      Data(Some("p2"), Some("processing"), Some(<<>>), Some(<<>>), Undefined, Undefined) }

\* a || [] for an array: every array is truthy.
OrArray(a, b) == IF a = Undefined THEN b ELSE a

\* The constructor, lines 55-67.
Prediction(data, cl) ==
    [id |-> data.id,
     model |-> data.model,
     status |-> data.status,
     input |-> data.input,
     outputs |-> OrArray(data.outputs, Some(<<>>)),
     urls |-> data.urls,
     has_nsfw_contents |-> OrArray(data.has_nsfw_contents, Some(<<>>)),
     created_at |-> data.created_at,
     error |-> data.error,
     executionTime |-> data.executionTime,
     client |-> cl]

\* The terminal test of wait() with 'failed' forgotten.
isTerminalCompletedOnly(status) == status = Some("completed")

\* lines 73 and 81: status === 'completed' || status === 'failed'
isTerminal(status) == status = Some("completed") \/ status = Some("failed")

\* The objects a promise of wait() or reload() can resolve with.
This == "this"

UpdatedPrediction == "updatedPrediction"

\* A response body: its text, and the value json() parses it to (Undefined
\* when the text is no JSON).  An envelope is [code, data].
Envelope(code, data) == [code |-> code, data |-> data]

Body(text, json) == Some([text |-> text, json |-> json])

\* line 99: the path `predictions/${this.id}/result`
reloadPath(p) == <<"predictions", "/", Get(p.id), "/", "result">>

\* An assignment that skips the properties whose value is undefined.
ObjectAssignDefined(target, source) ==
    [k \in DOMAIN target \cup DOMAIN source |->
        IF k \in DOMAIN source /\ source[k] # Undefined THEN source[k] ELSE target[k]]

\* Object.assign(target, source): every own property of source is written.
ObjectAssign(target, source) == Merge(target, source)

\* The Error of reload() without the status and the body text.
reloadErrorNoDetail(res) ==
    [kind |-> "error", name |-> "Error", id |-> 0,
     status |-> res.status, body |-> res.body,
     message |-> Some(<<"Failed to reload prediction">>)]

\* lines 102-103: new Error(`Failed to reload prediction: ${response.status}
\* ${errorText}`), errorText being the text of the body
reloadError(res) ==
    [kind |-> "error", name |-> "Error", id |-> 0,
     status |-> res.status, body |-> res.body,
     message |-> Some(<<"Failed to reload prediction: ", res.status, " ",
                        Get(res.body).text>>)]

\* reload() building the fresh Prediction from the envelope itself, not from
\* its data field: the envelope has none of the fields of a job.
reloadAfterFetchEnvelope(p, c, cl) ==
    LET res == Get(c.result)
    IN  IF c.pc = "thrown"
        THEN [threw |-> TRUE, error |-> res, pred |-> p, ret |-> Undefined,
              data |-> Undefined]
        ELSE IF ~ok(res.status)
        THEN [threw |-> TRUE,
              error |-> reloadError(res),
              pred |-> p, ret |-> Undefined, data |-> Undefined]
        ELSE IF Get(res.body).json = Undefined
        THEN [threw |-> TRUE,
              error |-> [kind |-> "error", name |-> "SyntaxError", id |-> 0,
                         status |-> 0, body |-> Undefined, message |-> Undefined],
              pred |-> p, ret |-> Undefined, data |-> Undefined]
        ELSE LET data == Data(Undefined, Undefined, Undefined, Undefined,
                              Undefined, Undefined)
             IN  [threw |-> FALSE, error |-> Undefined,
                  pred |-> ObjectAssign(p, Prediction(data, cl)),
                  ret |-> Some(This), data |-> Some(data)]

\* reload() resolving with the fresh object instead of this.
reloadAfterFetchFresh(p, c, cl) ==
    LET res == Get(c.result)
    IN  IF c.pc = "thrown"
        THEN [threw |-> TRUE, error |-> res, pred |-> p, ret |-> Undefined,
              data |-> Undefined]
        ELSE IF ~ok(res.status)
        THEN [threw |-> TRUE,
              error |-> reloadError(res),
              pred |-> p, ret |-> Undefined, data |-> Undefined]
        ELSE IF Get(res.body).json = Undefined
        THEN [threw |-> TRUE,
              error |-> [kind |-> "error", name |-> "SyntaxError", id |-> 0,
                         status |-> 0, body |-> Undefined, message |-> Undefined],
              pred |-> p, ret |-> Undefined, data |-> Undefined]
        ELSE IF Get(Get(res.body).json).data = Undefined
        THEN [threw |-> TRUE,
              error |-> [kind |-> "error", name |-> "TypeError", id |-> 0,
                         status |-> 0, body |-> Undefined, message |-> Undefined],
              pred |-> p, ret |-> Undefined, data |-> Undefined]
        ELSE LET data == Get(Get(Get(res.body).json).data)
             IN  [threw |-> FALSE, error |-> Undefined,
                  pred |-> p,
                  ret |-> Some(UpdatedPrediction), data |-> Some(data)]

\* reload() marking the record failed when it could not be refreshed: the
\* status field is written on the path that throws.
reloadAfterFetchMarksFailed(p, c, cl) ==
    LET res == Get(c.result)
        marked == [p EXCEPT !.status = Some("failed")]
    IN  IF c.pc = "thrown"
        THEN [threw |-> TRUE, error |-> res, pred |-> marked, ret |-> Undefined,
              data |-> Undefined]
        ELSE IF ~ok(res.status)
        THEN [threw |-> TRUE,
              error |-> reloadError(res),
              pred |-> marked, ret |-> Undefined, data |-> Undefined]
        ELSE IF Get(res.body).json = Undefined
        THEN [threw |-> TRUE,
              error |-> [kind |-> "error", name |-> "SyntaxError", id |-> 0,
                         status |-> 0, body |-> Undefined, message |-> Undefined],
              pred |-> marked, ret |-> Undefined, data |-> Undefined]
        ELSE IF Get(Get(res.body).json).data = Undefined
        THEN [threw |-> TRUE,
              error |-> [kind |-> "error", name |-> "TypeError", id |-> 0,
                         status |-> 0, body |-> Undefined, message |-> Undefined],
              pred |-> marked, ret |-> Undefined, data |-> Undefined]
        ELSE LET data == Get(Get(Get(res.body).json).data)
             IN  [threw |-> FALSE, error |-> Undefined,
                  pred |-> ObjectAssign(p, Prediction(data, cl)),
                  ret |-> Some(This), data |-> Some(data)]

\* reload(), lines 98-113, from the point where fetchWithTimeout has settled
\* as c: the error it threw is thrown on; a non-ok response throws a new
\* Error carrying status and body text; else the body is parsed, a fresh
\* Prediction is built from data.data and assigned over this.
reloadAfterFetch(p, c, cl) ==
    LET res == Get(c.result)
    IN  IF c.pc = "thrown"
        THEN [threw |-> TRUE, error |-> res, pred |-> p, ret |-> Undefined,
              data |-> Undefined]
        ELSE IF ~ok(res.status)
        THEN [threw |-> TRUE,
              error |-> reloadError(res),
              pred |-> p, ret |-> Undefined, data |-> Undefined]
        ELSE IF Get(res.body).json = Undefined
        THEN [threw |-> TRUE,
              error |-> [kind |-> "error", name |-> "SyntaxError", id |-> 0,
                         status |-> 0, body |-> Undefined, message |-> Undefined],
              pred |-> p, ret |-> Undefined, data |-> Undefined]
        ELSE IF Get(Get(res.body).json).data = Undefined
        THEN [threw |-> TRUE,
              error |-> [kind |-> "error", name |-> "TypeError", id |-> 0,
                         status |-> 0, body |-> Undefined, message |-> Undefined],
              pred |-> p, ret |-> Undefined, data |-> Undefined]
        ELSE LET data == Get(Get(Get(res.body).json).data)
             IN  [threw |-> FALSE, error |-> Undefined,
                  pred |-> ObjectAssign(p, Prediction(data, cl)),
                  ret |-> Some(This), data |-> Some(data)]

\* checkStatus arming the next poll timer when it starts its reload,
\* without waiting for the reload to settle.
checkStatusEagerTimer(w, cl) ==
    [w EXCEPT !.pc = "polling", !.inFlight = w.inFlight + 1,
              !.reloads = w.reloads + 1,
              !.timers = w.timers + 1,
              !.delay = TenthsToMs(cl.pollInterval)]

\* lines 78-80: checkStatus() calls reload(), which calls fetchWithTimeout
checkStatus(w, cl) ==
    [w EXCEPT !.pc = "polling", !.inFlight = w.inFlight + 1,
              !.reloads = w.reloads + 1]

\* checkStatus swallowing the error of its reload and polling again.
afterReloadSwallow(w, rl, cl) ==
    LET w1 == [w EXCEPT !.inFlight = w.inFlight - 1]
    IN  IF ~rl.threw /\ isTerminal(rl.pred.status)
        THEN [w1 EXCEPT !.pc = "resolved", !.settles = w.settles + 1,
                        !.result = rl.ret]
        ELSE [w1 EXCEPT !.timers = w.timers + 1,
                        !.delay = TenthsToMs(cl.pollInterval)]

\* checkStatus rejecting on an error of its reload and arming the next poll
\* all the same: the loop resumes after the promise has been rejected.
afterReloadRejectAndResume(w, rl, cl) ==
    LET w1 == [w EXCEPT !.inFlight = w.inFlight - 1]
    IN  IF rl.threw
        THEN [w1 EXCEPT !.pc = "rejected", !.settles = w.settles + 1,
                        !.result = Some(rl.error),
                        !.timers = w.timers + 1,
                        !.delay = TenthsToMs(cl.pollInterval)]
        ELSE IF isTerminal(rl.pred.status)
        THEN [w1 EXCEPT !.pc = "resolved", !.settles = w.settles + 1,
                        !.result = rl.ret]
        ELSE [w1 EXCEPT !.timers = w.timers + 1,
                        !.delay = TenthsToMs(cl.pollInterval)]

\* checkStatus giving up after its second poll: a cap on the number of polls,
\* which rejects the wait while the job is still running.
afterReloadPollCap(w, rl, cl) ==
    LET w1 == [w EXCEPT !.inFlight = w.inFlight - 1]
    IN  IF rl.threw
        THEN [w1 EXCEPT !.pc = "rejected", !.settles = w.settles + 1,
                        !.result = Some(rl.error)]
        ELSE IF isTerminal(rl.pred.status)
        THEN [w1 EXCEPT !.pc = "resolved", !.settles = w.settles + 1,
                        !.result = rl.ret]
        ELSE IF w.reloads >= 2
        THEN [w1 EXCEPT !.pc = "rejected", !.settles = w.settles + 1,
                        !.result = Undefined]
        ELSE [w1 EXCEPT !.timers = w.timers + 1,
                        !.delay = TenthsToMs(cl.pollInterval)]

\* lines 80-88: checkStatus() resumed with the outcome rl of its reload
afterReload(w, rl, cl) ==
    LET w1 == [w EXCEPT !.inFlight = w.inFlight - 1]
    IN  IF rl.threw
        THEN [w1 EXCEPT !.pc = "rejected", !.settles = w.settles + 1,
                        !.result = Some(rl.error)]
        ELSE IF isTerminal(rl.pred.status)
        THEN [w1 EXCEPT !.pc = "resolved", !.settles = w.settles + 1,
                        !.result = rl.ret]
        ELSE [w1 EXCEPT !.timers = w.timers + 1,
                        !.delay = TenthsToMs(cl.pollInterval)]

-----------------------------------------------------------------------------
(* SpecWait: one wait() call on a Prediction, the service answering each    *)
(* status request with any snapshot, any status, or not at all.             *)

PollResponses ==
    { <<200, Body("json", Some(Envelope(Some(200), Some(d))))>> : d \in Snapshots }
    \cup { <<200, Body("json", Some(Envelope(Some(200), Undefined)))>>,
           <<200, Body("<html>", Undefined)>> }
    \cup { <<s, Body("error text", Undefined)>> : s \in Statuses \ {200} }

InitWait ==
    /\ client \in Clients
    /\ call = IdleCall
    /\ pred \in { Prediction(d, client) : d \in Snapshots }
    /\ waiter = IdleWaiter
    /\ snaps = <<>>
    /\ app = IdleApp

\* The transport layer moved the call of the reload in flight to c.  When
\* that settles the call, reload() and checkStatus() resume in the same turn.
Resume(c) ==
    /\ call' = c
    /\ IF Settled(c)
       THEN LET rl == reloadAfterFetch(pred, c, client)
            IN  /\ pred' = rl.pred
                /\ waiter' = afterReload(waiter, rl, client)
                /\ snaps' = IF rl.threw THEN snaps ELSE Append(snaps, Get(rl.data))
       ELSE UNCHANGED <<pred, waiter, snaps>>
    /\ UNCHANGED <<client, app>>

\* checkStatus(), from wait() or from the poll timer
StartReload(w) ==
    \E r \in Randoms :
        /\ waiter' = w
        /\ call' = fetchWithTimeout(client, reloadPath(pred), NoOptions, r)
        /\ UNCHANGED <<client, pred, snaps, app>>

\* wait(), lines 72-93
Wait ==
    /\ waiter.pc = "idle"
    /\ IF isTerminal(pred.status)
       THEN /\ waiter' = [waiter EXCEPT !.pc = "resolved", !.settles = 1,
                                        !.result = Some(This)]
            /\ UNCHANGED <<client, call, pred, snaps, app>>
       ELSE StartReload(checkStatus(waiter, client))

\* line 84: the poll timer fires and runs checkStatus
PollTimer ==
    /\ waiter.timers > 0
    /\ waiter.reloads < MaxPolls
    /\ StartReload(checkStatus([waiter EXCEPT !.timers = waiter.timers - 1], client))

WaitRespond ==
    /\ call.pc = "inflight"
    /\ \E sb \in PollResponses, r \in Randoms : Resume(onResponse(call, sb[1], sb[2], r))

WaitReject ==
    /\ call.pc = "inflight"
    /\ \E e \in FetchErrors, r \in Randoms : Resume(onReject(call, e, r))

WaitDeadline ==
    \E t \in call.timers, r \in Randoms : Resume(onDeadline(call, t, r))

WaitBackoffElapsed ==
    /\ call.pc = "backoff"
    /\ \E r \in Randoms : Resume(afterBackoff(call, client, r))

NextWait ==
    Wait \/ PollTimer \/ WaitRespond \/ WaitReject \/ WaitDeadline \/ WaitBackoffElapsed

SpecWait == InitWait /\ [][NextWait]_vars

-----------------------------------------------------------------------------
(* The constructor: src/src/index.ts 131-157.                               *)

\* No client object.
NoClient == Undefined

\* lines 137-143: getEnvVar(name), undefined when process.env[name] is
\* absent or the empty string
getEnvVar(env, name) == IF FalsyString(env[name]) THEN Undefined ELSE env[name]

\* Number(v) for the strings the environment holds, in tenths of a second;
\* NaN, which is falsy, is Undefined here: Number(undefined), Number('abc').
Number(v) ==
    CASE v = Some("2") -> Some(20)
      [] v = Some("30") -> Some(300)
      [] OTHER -> Undefined

\* The test of line 147 comparing with undefined: '' passes.
apiKeyMissingUndefinedOnly(key) == key = Undefined

\* line 147: !this.apiKey
apiKeyMissing(key) == FalsyString(key)

\* new WaveSpeed(apiKey, options), in the environment env.  [threw, error,
\* client]: client is the object built, NoClient when the constructor threw.
WaveSpeed(apiKey, options, env) ==
    LET key == OrString(apiKey,
                        OrString(getEnvVar(env, "WAVESPEED_API_KEY"), Some("")))
    IN  IF apiKeyMissing(key)
        THEN [threw |-> TRUE,
              error |-> Some([kind |-> "error", name |-> "Error", id |-> 0,
                              status |-> 0, body |-> Undefined,
                              message |-> Some(<<"API key is required. Provide it as a parameter or set the WAVESPEED_API_KEY environment variable.">>)]),
              client |-> NoClient]
        ELSE [threw |-> FALSE,
              error |-> Undefined,
              client |->
                [apiKey |-> Get(key),
                 baseUrl |-> Get(OrString(options.baseUrl, Some(DefaultBaseUrl))),
                 pollInterval |->
                     Get(OrNumber(options.pollInterval,
                           OrNumber(Number(getEnvVar(env, "WAVESPEED_POLL_INTERVAL")),
                                    Some(DefaultPollInterval)))),
                 timeout |->
                     Get(OrNumber(options.timeout,
                           OrNumber(Number(getEnvVar(env, "WAVESPEED_TIMEOUT")),
                                    Some(DefaultTimeout))))]]

-----------------------------------------------------------------------------
(* SpecNew: the application constructs a client, and when it has one, makes *)
(* a fetchWithTimeout call on it.                                           *)

ApiKeys == {Undefined, Some(""), Some("test-api-key")}

ClientOptions ==
    { [baseUrl |-> Undefined, pollInterval |-> Undefined, timeout |-> Undefined],
      [baseUrl |-> Some("https://custom-api.example.com"),
       pollInterval |-> Undefined, timeout |-> Undefined],
      [baseUrl |-> Undefined, pollInterval |-> Some(0), timeout |-> Undefined],
      [baseUrl |-> Undefined, pollInterval |-> Some(50), timeout |-> Some(600)] }

Environments ==
    { [WAVESPEED_API_KEY |-> k, WAVESPEED_POLL_INTERVAL |-> pt[1],
       WAVESPEED_TIMEOUT |-> pt[2]] :
        k \in {Undefined, Some(""), Some("env-api-key")},
        pt \in { <<Undefined, Undefined>>, <<Some("2"), Some("30")>>,
                 <<Some("abc"), Undefined>> } }

InitNew ==
    /\ client = NoClient
    /\ call = IdleCall
    /\ pred = IdlePred
    /\ waiter = IdleWaiter
    /\ snaps = <<>>
    /\ app = [IdleApp EXCEPT !.op = "new"]

\* new WaveSpeed(apiKey, options)
Construct ==
    /\ app.op = "new"
    /\ app.pc = "idle"
    /\ \E apiKey \in ApiKeys, options \in ClientOptions, env \in Environments :
         LET n == WaveSpeed(apiKey, options, env)
         IN  /\ client' = n.client
             /\ app' = [app EXCEPT
                          !.pc = IF n.threw THEN "threw" ELSE "constructed",
                          !.result = n.error,
                          !.args = Some([apiKey |-> apiKey, options |-> options,
                                         env |-> env])]
    /\ UNCHANGED <<call, pred, waiter, snaps>>

\* A call on the client object, when there is one.
NewCall ==
    /\ client # NoClient
    /\ call.pc = "idle"
    /\ \E r \in Randoms :
         call' = fetchWithTimeout(client, <<"test-path">>, NoOptions, r)
    /\ UNCHANGED <<client, pred, waiter, snaps, app>>

NextNew == Construct \/ NewCall \/ Respond \/ Reject \/ Deadline \/ BackoffElapsed

SpecNew == InitNew /\ [][NextNew]_vars

-----------------------------------------------------------------------------
(* create and run: src/src/index.ts 275-311.                                *)

ModelId == "wavespeed-ai/flux-dev"

\* JSON.stringify of an input mapping, the mapping being a sequence of
\* <<key, value>> pairs of strings.
RECURSIVE members(_)
members(input) ==
    IF Len(input) = 0 THEN <<>>
    ELSE <<"\"", input[1][1], "\":\"", input[1][2], "\"">>
         \o (IF Len(input) = 1 THEN <<>> ELSE <<",">>)
         \o members(Tail(input))

JSONstringify(input) == <<"{">> \o members(input) \o <<"}">>

\* lines 290-293: the model id, and the webhook when the options name one
createUrl(modelId, options) ==
    IF FalsyString(options.webhook)
    THEN <<modelId>>
    ELSE <<modelId, "?webhook=", Get(options.webhook)>>

\* lines 295-299: { method: 'POST', body: JSON.stringify(input), ...options }
createOptions(input, options) ==
    LET base == [NoOptions EXCEPT !.method = Some("POST"),
                                  !.body = Some(JSONstringify(input))]
    IN  [k \in DOMAIN base |-> IF options[k] # Undefined THEN options[k] ELSE base[k]]

\* The template literal `${v}` of an envelope code.
CodeText(code) ==
    CASE code = Undefined -> "undefined"
      [] code = Some(200) -> "200"
      [] code = Some(500) -> "500"

\* create() with an Error that names neither status nor body text.
createErrorNoDetail(res) ==
    [kind |-> "error", name |-> "Error", id |-> 0,
     status |-> res.status, body |-> res.body,
     message |-> Some(<<"Failed to create prediction">>)]

\* lines 302-303: new Error(`Failed to create prediction: ${response.status}
\* ${errorText}`)
createError(res) ==
    [kind |-> "error", name |-> "Error", id |-> 0,
     status |-> res.status, body |-> res.body,
     message |-> Some(<<"Failed to create prediction: ", res.status, " ",
                        Get(res.body).text>>)]

\* The envelope test of line 307 letting an envelope without code through.
codeRejectedIfPresent(code) == code # Undefined /\ code # Some(200)

\* line 307: data.code !== 200
codeRejected(code) == code # Some(200)

\* create(), lines 301-310: what it does once fetchWithTimeout has settled
\* as c.  [threw, error, pred]: pred is the Prediction it resolves with.
createAfterFetch(c, cl) ==
    LET res == Get(c.result)
        thrown(e) == [threw |-> TRUE, error |-> e, pred |-> IdlePred]
    IN  IF c.pc = "thrown"
        THEN thrown(res)
        ELSE IF ~ok(res.status)
        THEN thrown(createError(res))
        ELSE IF Get(res.body).json = Undefined
        THEN thrown([kind |-> "error", name |-> "SyntaxError", id |-> 0,
                     status |-> 0, body |-> Undefined, message |-> Undefined])
        ELSE IF codeRejected(Get(Get(res.body).json).code)
        THEN thrown([kind |-> "error", name |-> "Error", id |-> 0,
                     status |-> res.status, body |-> res.body,
                     message |-> Some(<<"Failed to create prediction: ",
                                        CodeText(Get(Get(res.body).json).code),
                                        " ", "[object Object]">>)])
        ELSE IF Get(Get(res.body).json).data = Undefined
        THEN thrown([kind |-> "error", name |-> "TypeError", id |-> 0,
                     status |-> 0, body |-> Undefined, message |-> Undefined])
        ELSE [threw |-> FALSE, error |-> Undefined,
              pred |-> Prediction(Get(Get(Get(res.body).json).data), cl)]

-----------------------------------------------------------------------------
(* SpecRun: one create() or run() call of the application; the service      *)
(* answers the submission and every status request with anything.           *)

Inputs == { <<>>, << <<"prompt", "a cat">> >> }

RunOptions ==
    { NoOptions,
      [NoOptions EXCEPT !.maxRetries = Some(1)],
      [NoOptions EXCEPT !.webhook = Some("hook")],
      [NoOptions EXCEPT !.method = Some("DELETE")],
      [NoOptions EXCEPT !.body = Some(<<"raw">>)] }

CreateResponses ==
    { <<200, Body("json", Some(Envelope(code, Some(d))))>> :
        code \in {Undefined, Some(200), Some(500)}, d \in Snapshots }
    \cup { <<200, Body("json", Some(Envelope(code, Undefined)))>> :
             code \in {Some(200), Some(500)} }
    \cup { <<200, Body("<html>", Undefined)>> }
    \cup { <<s, Body("API Error", Undefined)>> : s \in Statuses \ {200} }

InitRun ==
    /\ client \in Clients
    /\ call = IdleCall
    /\ pred = IdlePred
    /\ waiter = IdleWaiter
    /\ snaps = <<>>
    /\ app \in { [IdleApp EXCEPT !.op = o] : o \in {"create", "run"} }

\* The requests made through fetchWithTimeout so far: the first one, and the
\* set of the later ones.  c is the call fetchWithTimeout has just begun.
logSent(sent, c) ==
    LET rq == [method |-> c.options.method, path |-> c.path]
    IN  IF sent.first = Undefined
        THEN [sent EXCEPT !.first = Some(rq)]
        ELSE [sent EXCEPT !.later = sent.later \cup {rq}]

\* create(), lines 287-299: the call, up to the await of fetchWithTimeout
Create ==
    /\ app.op \in {"create", "run"}
    /\ app.pc = "idle"
    /\ \E input \in Inputs, options \in RunOptions, r \in Randoms :
         LET c == fetchWithTimeout(client, createUrl(ModelId, options),
                                   createOptions(input, options), r)
         IN  /\ call' = c
             /\ app' = [app EXCEPT !.pc = "creating", !.calls = 1,
                                   !.sent = logSent(app.sent, c),
                                   !.args = Some([input |-> input])]
    /\ UNCHANGED <<client, pred, waiter, snaps>>

\* The promise of the application's call follows that of wait().
followWaiter(a, w) ==
    IF w.pc \in {"resolved", "rejected"}
    THEN [a EXCEPT !.pc = w.pc, !.result = w.result]
    ELSE a

\* The transport layer moved the call in flight to c.  During create(): when
\* c is settled, create() resumes and settles (its arguments go with its
\* frame); line 277 of run() then calls wait() on the new Prediction in the
\* same turn.  During wait(): as Resume.
ResumeRun(c, r) ==
    LET a == IF app.pc = "creating" /\ Settled(c)
             THEN [app EXCEPT !.args = Undefined]
             ELSE app
    IN  IF app.pc = "creating"
        THEN IF ~Settled(c)
             THEN /\ call' = c
                  /\ app' = a
                  /\ UNCHANGED <<client, pred, waiter, snaps>>
             ELSE LET cr == createAfterFetch(c, client)
                  IN  IF cr.threw
                      THEN /\ call' = c
                           /\ app' = [a EXCEPT !.pc = "rejected",
                                               !.result = Some(cr.error)]
                           /\ UNCHANGED <<client, pred, waiter, snaps>>
                      ELSE IF app.op = "create"
                      THEN /\ call' = c
                           /\ pred' = cr.pred
                           /\ app' = [a EXCEPT !.pc = "resolved",
                                               !.result = Some(UpdatedPrediction),
                                               !.created = cr.pred.id]
                           /\ UNCHANGED <<client, waiter, snaps>>
                      ELSE IF isTerminal(cr.pred.status)
                      THEN /\ call' = c
                           /\ pred' = cr.pred
                           /\ waiter' = [waiter EXCEPT !.pc = "resolved", !.settles = 1,
                                                       !.result = Some(This)]
                           /\ app' = [a EXCEPT !.pc = "resolved",
                                               !.result = Some(This),
                                               !.created = cr.pred.id]
                           /\ UNCHANGED <<client, snaps>>
                      ELSE LET f == fetchWithTimeout(client, reloadPath(cr.pred),
                                                     NoOptions, r)
                           IN  /\ call' = f
                               /\ pred' = cr.pred
                               /\ waiter' = checkStatus(waiter, client)
                               /\ app' = [a EXCEPT !.pc = "waiting",
                                                   !.created = cr.pred.id,
                                                   !.sent = logSent(a.sent, f)]
                               /\ UNCHANGED <<client, snaps>>
        ELSE /\ call' = c
             /\ IF Settled(c)
                THEN LET rl == reloadAfterFetch(pred, c, client)
                         w == afterReload(waiter, rl, client)
                     IN  /\ pred' = rl.pred
                         /\ waiter' = w
                         /\ snaps' = IF rl.threw THEN snaps
                                     ELSE Append(snaps, Get(rl.data))
                         /\ app' = followWaiter(a, w)
                ELSE /\ app' = a
                     /\ UNCHANGED <<pred, waiter, snaps>>
             /\ UNCHANGED client

RunResponses == IF app.pc = "creating" THEN CreateResponses ELSE PollResponses

RunRespond ==
    /\ app.pc \in {"creating", "waiting"}
    /\ call.pc = "inflight"
    /\ \E sb \in RunResponses, r \in Randoms :
         ResumeRun(onResponse(call, sb[1], sb[2], r), r)

RunReject ==
    /\ app.pc \in {"creating", "waiting"}
    /\ call.pc = "inflight"
    /\ \E e \in FetchErrors, r \in Randoms : ResumeRun(onReject(call, e, r), r)

RunDeadline ==
    /\ app.pc \in {"creating", "waiting"}
    /\ \E t \in call.timers, r \in Randoms : ResumeRun(onDeadline(call, t, r), r)

RunBackoffElapsed ==
    /\ app.pc \in {"creating", "waiting"}
    /\ call.pc = "backoff"
    /\ \E r \in Randoms : ResumeRun(afterBackoff(call, client, r), r)

\* The poll timer of the run's wait() doubling the client's pollInterval
\* before it polls: a poll backoff kept in the shared configuration.
RunPollTimerBacksOff ==
    /\ app.pc = "waiting"
    /\ waiter.timers > 0
    /\ waiter.reloads < MaxRunPolls
    /\ \E r \in Randoms :
         LET f == fetchWithTimeout(client, reloadPath(pred), NoOptions, r)
         IN  /\ call' = f
             /\ waiter' = checkStatus([waiter EXCEPT !.timers = waiter.timers - 1],
                                      client)
             /\ app' = [app EXCEPT !.sent = logSent(app.sent, f)]
    /\ client' = [client EXCEPT !.pollInterval = 2 * client.pollInterval]
    /\ UNCHANGED <<pred, snaps>>

\* line 84: the poll timer of the run's wait() fires and runs checkStatus
RunPollTimer ==
    /\ app.pc = "waiting"
    /\ waiter.timers > 0
    /\ waiter.reloads < MaxRunPolls
    /\ \E r \in Randoms :
         LET f == fetchWithTimeout(client, reloadPath(pred), NoOptions, r)
         IN  /\ call' = f
             /\ waiter' = checkStatus([waiter EXCEPT !.timers = waiter.timers - 1],
                                      client)
             /\ app' = [app EXCEPT !.sent = logSent(app.sent, f)]
    /\ UNCHANGED <<client, pred, snaps>>

NextRun ==
    Create \/ RunRespond \/ RunReject \/ RunDeadline \/ RunBackoffElapsed
    \/ RunPollTimer

SpecRun == InitRun /\ [][NextRun]_vars

-----------------------------------------------------------------------------
(* upload: src/src/index.ts 323-341.                                        *)

\* new FormData() with the file appended under 'file', lines 324-325
FormData(file) == <<"FormData", "file", file>>

\* lines 327-334: options defaults to { isUpload: true } when the caller
\* passes none (Undefined); then { method: 'POST', body: form, ...options }
uploadOptions(file, options) ==
    LET given == IF options = Undefined
                 THEN [NoOptions EXCEPT !.isUpload = Some(TRUE)]
                 ELSE Get(options)
        base == [NoOptions EXCEPT !.method = Some("POST"),
                                  !.body = Some(FormData(file))]
    IN  [k \in DOMAIN base |-> IF given[k] # Undefined THEN given[k] ELSE base[k]]

\* lines 336-337: new Error(`Failed to upload file: ${response.status}
\* ${errorText}`)
uploadError(res) ==
    [kind |-> "error", name |-> "Error", id |-> 0,
     status |-> res.status, body |-> res.body,
     message |-> Some(<<"Failed to upload file: ", res.status, " ",
                        Get(res.body).text>>)]

\* upload(), lines 335-340: what it does once fetchWithTimeout has settled
\* as c.  [threw, error, ret]: ret is resp.data.download_url.
uploadAfterFetch(c) ==
    LET res == Get(c.result)
        thrown(e) == [threw |-> TRUE, error |-> e, ret |-> Undefined]
    IN  IF c.pc = "thrown"
        THEN thrown(res)
        ELSE IF ~ok(res.status)
        THEN thrown(uploadError(res))
        ELSE IF Get(res.body).json = Undefined
        THEN thrown([kind |-> "error", name |-> "SyntaxError", id |-> 0,
                     status |-> 0, body |-> Undefined, message |-> Undefined])
        ELSE IF Get(Get(res.body).json).data = Undefined
        THEN thrown([kind |-> "error", name |-> "TypeError", id |-> 0,
                     status |-> 0, body |-> Undefined, message |-> Undefined])
        ELSE [threw |-> FALSE, error |-> Undefined,
              ret |-> Get(Get(Get(res.body).json).data).download_url]

-----------------------------------------------------------------------------
(* SpecUpload: one upload() call of the application.                        *)

Files == {"blob"}

UploadOptions ==
    { Undefined,
      Some([NoOptions EXCEPT !.timeout = Some(100)]),
      Some([NoOptions EXCEPT !.maxRetries = Some(1)]),
      Some([NoOptions EXCEPT !.isUpload = Some(TRUE), !.timeout = Some(100)]),
      Some([NoOptions EXCEPT !.headers = Some([xTrace |-> "1"])]) }

UploadResponses ==
    { <<200, Body("json", Some(Envelope(Some(200),
                                        Some([download_url |-> Some("https://cdn/file")]))))>>,
      <<200, Body("json", Some(Envelope(Some(200), Undefined)))>>,
      <<200, Body("<html>", Undefined)>> }
    \cup { <<s, Body("error text", Undefined)>> : s \in Statuses \ {200} }

InitUpload ==
    /\ client \in Clients
    /\ call = IdleCall
    /\ pred = IdlePred
    /\ waiter = IdleWaiter
    /\ snaps = <<>>
    /\ app = [IdleApp EXCEPT !.op = "upload"]

\* upload(), lines 323-334: the call, up to the await of fetchWithTimeout
Upload ==
    /\ app.op = "upload"
    /\ app.pc = "idle"
    /\ \E file \in Files, options \in UploadOptions, r \in Randoms :
         /\ call' = fetchWithTimeout(client, <<"media", "/", "upload", "/", "binary">>,
                                     uploadOptions(file, options), r)
         /\ app' = [app EXCEPT !.pc = "pending", !.calls = 1,
                               !.args = Some([file |-> file, options |-> options])]
    /\ UNCHANGED <<client, pred, waiter, snaps>>

\* The transport layer moved the call of the upload to c; when that settles
\* the call, upload() resumes in the same turn and settles its promise.
ResumeUpload(c) ==
    /\ call' = c
    /\ IF Settled(c)
       THEN LET up == uploadAfterFetch(c)
            IN  app' = [app EXCEPT
                          !.pc = IF up.threw THEN "rejected" ELSE "resolved",
                          !.result = IF up.threw THEN Some(up.error) ELSE up.ret]
       ELSE UNCHANGED app
    /\ UNCHANGED <<client, pred, waiter, snaps>>

UploadRespond ==
    /\ app.op = "upload"
    /\ call.pc = "inflight"
    /\ \E sb \in UploadResponses, r \in Randoms :
         ResumeUpload(onResponse(call, sb[1], sb[2], r))

UploadReject ==
    /\ app.op = "upload"
    /\ call.pc = "inflight"
    /\ \E e \in FetchErrors, r \in Randoms : ResumeUpload(onReject(call, e, r))

UploadDeadline ==
    /\ app.op = "upload"
    /\ \E t \in call.timers, r \in Randoms : ResumeUpload(onDeadline(call, t, r))

UploadBackoffElapsed ==
    /\ app.op = "upload"
    /\ call.pc = "backoff"
    /\ \E r \in Randoms : ResumeUpload(afterBackoff(call, client, r))

NextUpload ==
    Upload \/ UploadRespond \/ UploadReject \/ UploadDeadline \/ UploadBackoffElapsed

SpecUpload == InitUpload /\ [][NextUpload]_vars

-----------------------------------------------------------------------------
(* SpecReload: the application calls reload() on a Prediction, each call    *)
(* after the one before has settled; the service answers with any snapshot. *)
(* SpecReloadMono: the same against a service that holds the job's status,  *)
(* moves it forward only, and reports it in every snapshot.                 *)

\* The snapshot the service of SpecReloadMono reports for a status.
SnapshotOf(status) ==
    CHOOSE d \in Snapshots : d.id = Some("p1") /\ d.status = status

Rank(status) ==
    CASE status = Some("created") -> 1
      [] status = Some("processing") -> 2
      [] OTHER -> 3

\* The service moves the job forward: a terminal status stays as it is.
Forward(from, to) == Rank(from) < Rank(to)

JobStatuses == {Some("created"), Some("processing"), Some("completed"), Some("failed")}

ReloadResponses ==
    IF app.service = Undefined
    THEN PollResponses
    ELSE { <<200, Body("json", Some(Envelope(Some(200), Some(SnapshotOf(app.service)))))>> }
         \cup { <<s, Body("error text", Undefined)>> : s \in Statuses \ {200} }

InitReload ==
    /\ client \in Clients
    /\ call = IdleCall
    /\ pred \in { Prediction(d, client) : d \in Snapshots }
    /\ waiter = IdleWaiter
    /\ snaps = <<>>
    /\ app = [IdleApp EXCEPT !.op = "reload"]

InitReloadMono ==
    /\ client \in Clients
    /\ call = IdleCall
    /\ \E s \in JobStatuses :
         /\ pred = Prediction(SnapshotOf(s), client)
         /\ app = [IdleApp EXCEPT !.op = "reload", !.service = s]
    /\ waiter = IdleWaiter
    /\ snaps = <<>>

\* reload(), lines 98-99: the call, up to the await of fetchWithTimeout
Reload ==
    /\ app.op = "reload"
    /\ app.pc # "pending"
    /\ app.calls < MaxReloads
    /\ \E r \in Randoms :
         call' = fetchWithTimeout(client, reloadPath(pred), NoOptions, r)
    /\ app' = [app EXCEPT !.pc = "pending", !.calls = app.calls + 1,
                          !.result = Undefined]
    /\ UNCHANGED <<client, pred, waiter, snaps>>

\* The transport layer moved the call of the reload to c; when that settles
\* the call, reload() resumes in the same turn and settles its promise.
ResumeReload(c) ==
    /\ call' = c
    /\ IF Settled(c)
       THEN LET rl == reloadAfterFetch(pred, c, client)
            IN  /\ pred' = rl.pred
                /\ app' = [app EXCEPT
                             !.pc = IF rl.threw THEN "rejected" ELSE "resolved",
                             !.result = IF rl.threw THEN Some(rl.error) ELSE rl.ret]
                /\ snaps' = IF rl.threw THEN snaps ELSE Append(snaps, Get(rl.data))
       ELSE UNCHANGED <<pred, app, snaps>>
    /\ UNCHANGED <<client, waiter>>

ReloadRespond ==
    /\ app.op = "reload"
    /\ call.pc = "inflight"
    /\ \E sb \in ReloadResponses, r \in Randoms :
         ResumeReload(onResponse(call, sb[1], sb[2], r))

ReloadReject ==
    /\ app.op = "reload"
    /\ call.pc = "inflight"
    /\ \E e \in FetchErrors, r \in Randoms : ResumeReload(onReject(call, e, r))

ReloadDeadline ==
    /\ app.op = "reload"
    /\ \E t \in call.timers, r \in Randoms : ResumeReload(onDeadline(call, t, r))

ReloadBackoffElapsed ==
    /\ app.op = "reload"
    /\ call.pc = "backoff"
    /\ \E r \in Randoms : ResumeReload(afterBackoff(call, client, r))

\* The job advances at the service.
ServiceProgress ==
    /\ app.service # Undefined
    /\ \E s \in JobStatuses :
         /\ Forward(app.service, s)
         /\ app' = [app EXCEPT !.service = s]
    /\ UNCHANGED <<client, call, pred, waiter, snaps>>

NextReload ==
    Reload \/ ReloadRespond \/ ReloadReject \/ ReloadDeadline \/ ReloadBackoffElapsed

SpecReload == InitReload /\ [][NextReload]_vars

NextReloadMono == NextReload \/ ServiceProgress

SpecReloadMono == InitReloadMono /\ [][NextReloadMono]_vars

-----------------------------------------------------------------------------
(* SpecOverlap: two tasks of the application call reload() on the same      *)
(* Prediction while the other's reload may be outstanding (a manual reload  *)
(* during a wait(), or the reloads of two wait() calls).  call is here a    *)
(* function from the tasks to their fetchWithTimeout calls.  The service    *)
(* moves the job forward only; it fixes the snapshot of a response when the *)
(* request reaches it, and the network delivers every response before the   *)
(* deadline of its attempt, in any order.                                   *)

Tasks == {1, 2}

IdleTask == [pc |-> "idle", served |-> Undefined, result |-> Undefined]

InitOverlap ==
    /\ client \in {cl \in Clients : UrlParses(cl.baseUrl)}
    /\ call = [i \in Tasks |-> IdleCall]
    /\ \E s \in JobStatuses :
         /\ pred = Prediction(SnapshotOf(s), client)
         /\ app = [IdleApp EXCEPT !.op = "overlap", !.service = s,
                                  !.tasks = [i \in Tasks |-> IdleTask]]
    /\ waiter = IdleWaiter
    /\ snaps = <<>>

\* reload(), lines 98-99, called by task i
OverlapReload ==
    /\ app.op = "overlap"
    /\ \E i \in Tasks, r \in Randoms :
         /\ app.tasks[i].pc = "idle"
         /\ call' = [call EXCEPT ![i] = fetchWithTimeout(client, reloadPath(pred),
                                                       NoOptions, r)]
         /\ app' = [app EXCEPT !.tasks[i].pc = "pending", !.calls = app.calls + 1]
    /\ UNCHANGED <<client, pred, waiter, snaps>>

\* The request of task i reaches the service, which reads the job's status.
OverlapServe ==
    /\ app.op = "overlap"
    /\ \E i \in Tasks :
         /\ call[i].pc = "inflight"
         /\ app.tasks[i].served = Undefined
         /\ app' = [app EXCEPT !.tasks[i].served = app.service]
    /\ UNCHANGED <<client, call, pred, waiter, snaps>>

\* The transport layer moved the call of task i to c; when that settles the
\* call, the reload() of task i resumes in the same turn.
ResumeOverlap(i, c) ==
    /\ call' = [call EXCEPT ![i] = c]
    /\ IF Settled(c)
       THEN LET rl == reloadAfterFetch(pred, c, client)
            IN  /\ pred' = rl.pred
                /\ app' = [app EXCEPT
                             !.tasks[i].pc = IF rl.threw THEN "rejected" ELSE "resolved",
                             !.tasks[i].result = IF rl.threw THEN Some(rl.error) ELSE rl.ret,
                             !.tasks[i].served = Undefined]
                /\ snaps' = IF rl.threw THEN snaps ELSE Append(snaps, Get(rl.data))
       ELSE /\ app' = [app EXCEPT !.tasks[i].served = Undefined]
            /\ UNCHANGED <<pred, snaps>>
    /\ UNCHANGED <<client, waiter>>

\* The response of the service to task i arrives: the snapshot it read.
OverlapRespond ==
    /\ app.op = "overlap"
    /\ \E i \in Tasks, r \in Randoms :
         /\ call[i].pc = "inflight"
         /\ app.tasks[i].served # Undefined
         /\ ResumeOverlap(i, onResponse(call[i], 200,
                Body("json", Some(Envelope(Some(200),
                                           Some(SnapshotOf(app.tasks[i].served))))), r))

\* The service refuses the request of task i.
OverlapRefuse ==
    /\ app.op = "overlap"
    /\ \E i \in Tasks, r \in Randoms :
         /\ call[i].pc = "inflight"
         /\ ResumeOverlap(i, onResponse(call[i], 404, Body("error text", Undefined), r))

NextOverlap ==
    OverlapReload \/ OverlapServe \/ OverlapRespond \/ OverlapRefuse \/ ServiceProgress

SpecOverlap == InitOverlap /\ [][NextOverlap]_vars

(* SpecPoll: one wait() call on a Prediction whose job the service moves    *)
(* forward until it is completed or failed.  The service answers each       *)
(* reload with the job as it is then, with 429 while the transport layer    *)
(* has a retry left, or with 404; every response arrives before the         *)
(* deadline of its attempt.  The count of polls saturates at MaxPolls and   *)
(* snaps keeps the last snapshot only, so that a wait that polls for ever   *)
(* is a cycle of the state graph.                                           *)

Saturate(w) == [w EXCEPT !.reloads = IF w.reloads > MaxPolls THEN MaxPolls ELSE w.reloads]

InitPoll ==
    /\ client \in {cl \in Clients : UrlParses(cl.baseUrl)}
    /\ call = IdleCall
    /\ \E s \in JobStatuses :
         /\ pred = Prediction(SnapshotOf(s), client)
         /\ app = [IdleApp EXCEPT !.op = "poll", !.service = s]
    /\ waiter = IdleWaiter
    /\ snaps = <<>>

\* wait(), lines 72-93, called once
PollWait ==
    /\ app.op = "poll"
    /\ Wait

\* line 84: the poll timer fires and runs checkStatus, however many polls
\* were made before
PollTimerFires ==
    /\ app.op = "poll"
    /\ waiter.timers > 0
    /\ StartReload(Saturate(checkStatus([waiter EXCEPT !.timers = waiter.timers - 1],
                                        client)))

\* The transport layer moved the call of the reload in flight to c; when
\* that settles the call, reload() and checkStatus() resume in the same turn.
ResumePoll(c) ==
    /\ call' = c
    /\ IF Settled(c)
       THEN LET rl == reloadAfterFetch(pred, c, client)
            IN  /\ pred' = rl.pred
                /\ waiter' = Saturate(afterReload(waiter, rl, client))
                /\ snaps' = IF rl.threw THEN snaps ELSE <<Get(rl.data)>>
       ELSE UNCHANGED <<pred, waiter, snaps>>
    /\ UNCHANGED <<client, app>>

\* The service answers the GET with the job as it is now.
PollRespond ==
    /\ app.op = "poll"
    /\ call.pc = "inflight"
    /\ \E r \in Randoms :
         ResumePoll(onResponse(call, 200,
                               Body("json", Some(Envelope(Some(200),
                                                 Some(SnapshotOf(app.service))))),
                               r))

\* The service answers 429 while the call has a retry left: the transport
\* layer sleeps and asks again, and the reload does not see it.
PollBusy ==
    /\ app.op = "poll"
    /\ call.pc = "inflight"
    /\ call.retryCount < call.maxRetries
    /\ \E r \in Randoms :
         ResumePoll(onResponse(call, 429, Body("error text", Undefined), r))

\* The service answers 404: the reload throws.
PollRefuse ==
    /\ app.op = "poll"
    /\ call.pc = "inflight"
    /\ \E r \in Randoms :
         ResumePoll(onResponse(call, 404, Body("error text", Undefined), r))

PollBackoffElapsed ==
    /\ app.op = "poll"
    /\ call.pc = "backoff"
    /\ \E r \in Randoms : ResumePoll(afterBackoff(call, client, r))

NextPoll ==
    \/ PollWait \/ PollTimerFires \/ PollRespond \/ PollBusy \/ PollRefuse
    \/ PollBackoffElapsed \/ ServiceProgress

SpecPoll == InitPoll /\ [][NextPoll]_vars

\* Timers fire, the service answers, and the job moves on until it is
\* completed or failed.
FairSpecPoll ==
    /\ SpecPoll
    /\ WF_vars(PollTimerFires)
    /\ WF_vars(PollBackoffElapsed)
    /\ WF_vars(PollRespond \/ PollBusy \/ PollRefuse)
    /\ WF_vars(ServiceProgress)

-----------------------------------------------------------------------------
\* The timers of the event loop fire and the network answers or fails:
\* every pending backoff sleep ends, every HTTP call in flight settles.
FairSpec ==
    /\ Spec
    /\ WF_vars(BackoffElapsed)
    /\ WF_vars(Respond \/ Reject \/ Deadline)

-----------------------------------------------------------------------------
(* Properties of fetchWithTimeout.                                          *)

Started == call.pc # "idle"

Last(h) == h[Len(h)]

GotStatus(o) == o.error = NoError

\* The request goes out as a GET: no method given, or GET in any case.
IsGet(method) == method \in {Undefined, Some("GET"), Some("get")}

Is5xx(status) == status >= 500 /\ status <= 599

AllStatus(h, s) == Len(h) >= 1 /\ \A i \in 1..Len(h) : h[i] = Received(s)

StatusHist(h) == [i \in 1..Len(h) |-> h[i].status]

IsResponse(res, status, id) ==
    res = Some([kind |-> "response", name |-> NoError, id |-> id,
                status |-> status, body |-> NoBody, message |-> Undefined])

IsError(res, name, id) ==
    res = Some([kind |-> "error", name |-> name, id |-> id,
                status |-> 0, body |-> Undefined, message |-> Undefined])

\* C1: with the option maxRetries = N >= 1 and HTTP 429 on every attempt,
\* the call makes exactly N+1 HTTP attempts and returns the 429 response of
\* the last one; it never throws.
C1_RetryCap ==
    (Started /\ call.options.maxRetries # Undefined
       /\ Get(call.options.maxRetries) >= 1 /\ AllStatus(call.hist, 429))
    => LET N == Get(call.options.maxRetries)
       IN  /\ call.attempts <= N + 1
           /\ call.pc # "thrown"
           /\ call.pc = "returned" => call.attempts = N + 1
           /\ Len(call.hist) = N + 1
                => call.pc = "returned" /\ IsResponse(call.result, 429, N + 1)

C1_Witness ==
    /\ call.pc = "returned"
    /\ call.options.maxRetries = Some(2)
    /\ AllStatus(call.hist, 429)
    /\ call.attempts = 3

\* C2: a 5xx response is followed by another attempt only on a GET; a GET
\* that receives 503 then 200 makes 2 attempts and returns the 200; a POST
\* that receives 503 makes 1 attempt and returns the 503.
C2_MethodSensitive5xx ==
    Started =>
      LET h == call.hist
          m == call.options.method
      IN  /\ \A i \in 1..Len(h) :
                (GotStatus(h[i]) /\ Is5xx(h[i].status)
                   /\ (i < Len(h) \/ call.pc \in {"backoff", "inflight"}))
                => IsGet(m)
          /\ (IsGet(m) /\ StatusHist(h) = <<503>> /\ GotStatus(h[1]))
                => call.pc \in {"backoff", "inflight"}
          /\ (IsGet(m) /\ StatusHist(h) = <<503, 200>> /\ GotStatus(h[1]))
                => /\ call.pc = "returned"
                   /\ call.attempts = 2
                   /\ IsResponse(call.result, 200, 2)
          /\ (m = Some("POST") /\ Len(h) >= 1 /\ h[1] = Received(503))
                => /\ call.pc = "returned"
                   /\ Len(h) = 1
                   /\ call.attempts = 1
                   /\ IsResponse(call.result, 503, 1)

C2_Witness ==
    /\ call.options.method = Undefined
    /\ call.hist = <<Received(503), Received(200)>>
    /\ call.pc = "returned"
    /\ call.attempts = 2

\* C3: whatever the method, a 429 received while retryCount < maxRetries
\* puts the call into its backoff sleep; the sleep ends only by the next
\* HTTP attempt, and it does end; a 429 followed by a 200 gives 2 attempts
\* and the 200 response.
C3_RetryOn429 ==
    /\ [][(call.pc = "inflight" /\ call.retryCount < call.maxRetries
            /\ call'.hist = Append(call.hist, Received(429)))
          => (/\ call'.pc = "backoff"
              /\ call'.backoffTimer # Undefined
              /\ call'.result = Undefined
              /\ call'.retryCount = call.retryCount + 1)]_vars
    /\ [][(call.pc = "backoff" /\ Last(call.hist) = Received(429)
            /\ call'.pc # "backoff")
          => (/\ call'.pc = "inflight"
              /\ call'.attempts = call.attempts + 1
              /\ call'.hist = call.hist)]_vars
    /\ [](Started /\ call.hist = <<Received(429), Received(200)>>
          => (/\ call.pc = "returned"
              /\ call.attempts = 2
              /\ IsResponse(call.result, 200, 2)))
    /\ \A n \in 1..(DefaultMaxRetries + 1) :
         (call.pc = "backoff" /\ Last(call.hist) = Received(429)
            /\ call.attempts = n)
         ~> (call.attempts = n + 1)

C3_Witness ==
    /\ call.options.method = Some("DELETE")
    /\ call.hist = <<Received(429), Received(200)>>
    /\ call.attempts = 2

\* A status the retry policy does not name: not 429, and not a 5xx on a GET.
NotRetryable(method, status) ==
    status # 429 /\ ~(IsGet(method) /\ Is5xx(status))

\* C4: a 2xx response, or a response whose status is not retryable, is
\* returned at once: the call is settled with that very response, no backoff
\* sleep and no deadline timer is pending, and no further attempt was made.
C4_ReturnedAtOnce ==
    (Started /\ Len(call.hist) >= 1 /\ GotStatus(Last(call.hist))
       /\ (ok(Last(call.hist).status)
             \/ NotRetryable(call.options.method, Last(call.hist).status)))
    => /\ call.pc = "returned"
       /\ IsResponse(call.result, Last(call.hist).status, call.iter)
       /\ call.iter = Len(call.hist)
       /\ call.backoffTimer = Undefined
       /\ call.timers = {}

C4_Witness ==
    /\ call.pc = "returned"
    /\ call.hist = <<Received(404)>>
    /\ call.attempts = 1
    /\ IsGet(call.options.method)

\* The retry budget as the option states it: 3 without the option, else N.
StatedBudget(options) ==
    IF options.maxRetries = Undefined THEN 3 ELSE Get(options.maxRetries)

\* C5: the call never makes more than N+1 HTTP attempts, N being 3 without
\* the maxRetries option and the option's value otherwise, 0 included.
C5_BudgetIsOption ==
    Started => call.attempts <= StatedBudget(call.options) + 1

\* C6: an AbortError or TypeError caught while retryCount < maxRetries is
\* not thrown: the call sleeps and then starts the next iteration; a
\* network error followed by a 200 gives 2 attempts and the 200 response.
C6_TransportErrorRecovered ==
    Started =>
      LET h == call.hist
          L == Len(call.hist)
      IN  /\ (L >= 1 /\ Last(h).error \in {"AbortError", "TypeError"}
                /\ L <= call.maxRetries)
             => /\ call.result = Undefined
                /\ call.pc \in {"backoff", "inflight"}
                /\ call.retryCount = L
                /\ call.pc = "inflight" => call.iter = L + 1
          /\ h = <<Failed("TypeError"), Received(200)>>
             => /\ call.pc = "returned"
                /\ call.attempts = 2
                /\ IsResponse(call.result, 200, 2)

C6_Witness ==
    /\ call.hist = <<Failed("TypeError"), Received(200)>>
    /\ call.pc = "returned"
    /\ call.attempts = 2

AllTransportErrors(h) ==
    Len(h) >= 1 /\ \A i \in 1..Len(h) : h[i].error \in {"AbortError", "TypeError"}

\* C7: when every iteration fails with a timeout or a network error, the
\* call runs maxRetries + 1 iterations (each an HTTP attempt when the URL
\* could be built) and then throws the very error of the last one; it never
\* returns a response.
C7_LastErrorRethrown ==
    (Started /\ AllTransportErrors(call.hist))
    => /\ call.pc # "returned"
       /\ Len(call.hist) <= call.maxRetries + 1
       /\ Len(call.hist) = call.maxRetries + 1 => call.pc = "thrown"
       /\ call.pc = "thrown"
            => /\ call.iter = call.maxRetries + 1
               /\ UrlParses(client.baseUrl) => call.attempts = call.maxRetries + 1
               /\ IsError(call.result, Last(call.hist).error, call.iter)

C7_Witness ==
    /\ call.pc = "thrown"
    /\ call.attempts = 3
    /\ call.maxRetries = 2
    /\ call.hist = <<Failed("TypeError"), Failed("AbortError"),
                     Failed("AbortError")>>

-----------------------------------------------------------------------------
(* Properties of Prediction.wait.                                           *)

TerminalStatus(status) == status \in {Some("completed"), Some("failed")}

\* C8: wait() on a Prediction whose status is completed or failed resolves
\* with the object it was called on, in that same step: no fetchWithTimeout
\* call is made, no timer is armed and no field of the record changes.
C8_TerminalWaitIsNoOp ==
    /\ [][(waiter.pc = "idle" /\ TerminalStatus(pred.status) /\ waiter' # waiter)
          => (/\ waiter'.pc = "resolved"
              /\ waiter'.result = Some(This)
              /\ waiter'.reloads = 0 /\ waiter'.inFlight = 0 /\ waiter'.timers = 0
              /\ pred' = pred
              /\ call' = call)]_vars
    /\ []((waiter.pc # "idle" /\ waiter.reloads = 0)
          => (/\ waiter.pc = "resolved"
              /\ TerminalStatus(pred.status)
              /\ call = IdleCall
              /\ waiter.timers = 0))

C8_Witness ==
    /\ waiter.pc = "resolved"
    /\ waiter.reloads = 0
    /\ pred.status = Some("failed")
    /\ call.attempts = 0

\* C9: a wait() that polls resolves exactly at the first reload whose
\* snapshot is completed or failed: the snapshots before it are not
\* terminal, the number of reloads is the number of snapshots, the promise
\* resolves with the object wait was called on, and the record holds that
\* snapshot's status, outputs (an empty list when it has none) and
\* executionTime.
C9_WaitResolvesAtFirstTerminal ==
    LET k == Len(snaps)
    IN  /\ (waiter.pc = "resolved" /\ waiter.reloads >= 1)
           => /\ k >= 1
              /\ waiter.reloads = k
              /\ TerminalStatus(snaps[k].status)
              /\ waiter.result = Some(This)
              /\ pred.status = snaps[k].status
              /\ pred.outputs = IF snaps[k].outputs = Undefined
                                THEN Some(<<>>) ELSE snaps[k].outputs
              /\ pred.executionTime = snaps[k].executionTime
        /\ \A i \in 1..k :
              TerminalStatus(snaps[i].status) => (i = k /\ waiter.pc = "resolved")
        /\ (waiter.pc = "polling" /\ waiter.inFlight = 0 /\ k >= 1)
           => (waiter.reloads = k /\ pred.status = snaps[k].status)

C9_Witness ==
    /\ waiter.pc = "resolved"
    /\ waiter.reloads = 2
    /\ Len(snaps) = 2
    /\ snaps[1].status = Some("processing")
    /\ snaps[2].status = Some("completed")
    /\ pred.outputs = Some(<<"url1">>)
    /\ pred.executionTime = Some(5000)

CallInFlight == call.pc \in {"inflight", "backoff"}

\* C10: one wait() call has at most one reload in flight; a poll timer is
\* armed only by the step that settles the reload in flight, a reload is
\* started only when none is in flight, and a timer and a reload are never
\* pending together.
C10_PollsSequential ==
    /\ [](/\ waiter.inFlight <= 1
          /\ waiter.timers <= 1
          /\ ~(waiter.inFlight >= 1 /\ waiter.timers >= 1)
          /\ (waiter.inFlight = 1) <=> (waiter.pc = "polling" /\ CallInFlight))
    /\ [][(waiter'.timers > waiter.timers)
          => (waiter.inFlight = 1 /\ waiter'.inFlight = 0 /\ Settled(call'))]_vars
    /\ [][(waiter'.reloads > waiter.reloads)
          => (waiter.inFlight = 0 /\ waiter'.inFlight = 1
              /\ waiter'.reloads = waiter.reloads + 1)]_vars

C10_Witness ==
    /\ waiter.reloads = 2
    /\ waiter.inFlight = 1
    /\ call.pc = "inflight"
    /\ Len(snaps) = 1

\* The Error reload() throws for a response that is not ok.
ReloadError(status, body) ==
    Some([kind |-> "error", name |-> "Error", id |-> 0, status |-> status,
          body |-> body,
          message |-> Some(<<"Failed to reload prediction: ", status, " ",
                             Get(body).text>>)])

\* C11: when the reload of a wait() call rejects, with the error
\* fetchWithTimeout threw or with the Error of a response that is not ok,
\* wait() rejects with that same error in that step, and afterwards that
\* wait call starts no reload, sends no request and arms no poll timer.
C11_ReloadErrorRejectsWait ==
    /\ [][(waiter.inFlight = 1 /\ call'.pc = "thrown")
          => (waiter'.pc = "rejected" /\ waiter'.result = call'.result)]_vars
    /\ [][(waiter.inFlight = 1 /\ call'.pc = "returned"
             /\ ~(Get(call'.result).status \in 200..299))
          => (/\ waiter'.pc = "rejected"
              /\ waiter'.result
                   = ReloadError(Get(call'.result).status, Get(call'.result).body))]_vars
    /\ [](waiter.pc = "rejected"
          => (/\ waiter.inFlight = 0 /\ waiter.timers = 0 /\ waiter.settles = 1
              /\ Settled(call) /\ call.timers = {} /\ call.backoffTimer = Undefined))
    /\ [][waiter.pc = "rejected"
          => (/\ waiter' = waiter
              /\ call'.attempts = call.attempts /\ call'.iter = call.iter)]_vars

C11_Witness ==
    /\ waiter.pc = "rejected"
    /\ waiter.reloads = 2
    /\ waiter.result = ReloadError(404, Body("error text", Undefined))
    /\ Len(snaps) = 1

-----------------------------------------------------------------------------
(* Claims about reload(), checked under SpecReload and SpecReloadMono.      *)

DataFields ==
    {"id", "model", "status", "input", "outputs", "urls", "has_nsfw_contents",
     "created_at", "error", "executionTime"}

\* The value a field has in the fresh Prediction built from the data d of
\* the envelope: the two arrays are empty when d has none.
FreshValue(d, f) ==
    IF f \in {"outputs", "has_nsfw_contents"} /\ d[f] = Undefined
    THEN Some(<<>>)
    ELSE d[f]

\* The job the envelope of a response carries in its data field.
DataOf(res) == Get(Get(Get(Get(res).body).json).data)

ReloadPending == app.op = "reload" /\ app.pc = "pending"

\* C12: a successful reload() overwrites every data field of the Prediction
\* it was called on with the value of the fresh snapshot, keeps no old value
\* for a field the snapshot lacks, and resolves with that very object.
C12_ReloadOverwritesEveryField ==
    [][(ReloadPending /\ app'.pc = "resolved")
       => (/\ call'.pc = "returned"
           /\ \A f \in DataFields : pred'[f] = FreshValue(DataOf(call'.result), f)
           /\ app'.result = Some(This))]_vars

C12_Witness ==
    /\ app.op = "reload" /\ app.pc = "resolved" /\ app.calls = 2
    /\ Len(snaps) = 2
    /\ snaps[1].status = Some("failed") /\ snaps[1].error = Some("boom")
    /\ snaps[2].status = Some("created")
    /\ pred.status = Some("created")
    /\ pred.error = Undefined /\ pred.executionTime = Undefined
    /\ pred.outputs = Some(<<>>)

\* C13: reload() issues a GET on predictions/{id}/result, and when the
\* transport layer hands back a response whose status is not 2xx, reload()
\* rejects with the Error 'Failed to reload prediction: <status> <body text>'
\* and the record is left as it was.
C13_ReloadRequestAndError ==
    /\ [](ReloadPending /\ call.request # Undefined
          => (/\ IsGet(Get(call.request).method)
              /\ Get(call.request).path
                   = <<"predictions", "/", Get(pred.id), "/", "result">>))
    /\ [][(ReloadPending /\ call'.pc = "returned"
             /\ ~(Get(call'.result).status \in 200..299))
          => (/\ app'.pc = "rejected"
              /\ Get(app'.result).name = "Error"
              /\ Get(app'.result).message
                   = Some(<<"Failed to reload prediction: ",
                            Get(call'.result).status, " ",
                            Get(Get(call'.result).body).text>>)
              /\ pred' = pred)]_vars

C13_Witness ==
    /\ app.op = "reload" /\ app.pc = "rejected" /\ app.calls = 2
    /\ Get(call.request).path = <<"predictions", "/", "p2", "/", "result">>
    /\ Get(app.result).message
         = Some(<<"Failed to reload prediction: ", 404, " ", "error text">>)

\* C14: against a service whose status for the job only moves forward,
\* reload() calls made one after the other never take the record's status
\* from completed or failed to anything else: a reload of a terminal record
\* leaves the same terminal status.
C14_TerminalStatusStays ==
    [][TerminalStatus(pred.status) => pred'.status = pred.status]_vars

C14_Witness ==
    /\ app.service # Undefined
    /\ app.pc = "resolved" /\ app.calls = 2
    /\ Len(snaps) = 2
    /\ snaps[1].status = Some("failed")
    /\ snaps[2].status = Some("failed")
    /\ pred.status = Some("failed")

-----------------------------------------------------------------------------
(* Claims about create() and run(), checked under SpecRun.                  *)

Creating == app.pc = "creating"

\* The response create() was handed, when fetchWithTimeout returned one.
HttpStatus(c) == Get(c.result).status

JsonOf(c) == Get(Get(c.result).body).json

NothingCreated(a, p, w) == a.created = Undefined /\ p = IdlePred /\ w = IdleWaiter

\* C15: when the submission POST of create() ends with a status that is
\* not 2xx, create() rejects with the Error 'Failed to create prediction:
\* <status> <body text>', and no Prediction is constructed or returned.
C15_CreateHttpError ==
    [][(Creating /\ call'.pc = "returned" /\ ~(HttpStatus(call') \in 200..299))
       => (/\ app'.pc = "rejected"
           /\ Get(app'.result).name = "Error"
           /\ Get(app'.result).message
                = Some(<<"Failed to create prediction: ", HttpStatus(call'), " ",
                         Get(Get(call'.result).body).text>>)
           /\ NothingCreated(app', pred', waiter'))]_vars

C15_Witness ==
    /\ app.op = "create" /\ app.pc = "rejected"
    /\ call.pc = "returned" /\ HttpStatus(call) = 404
    /\ Get(app.result).message
         = Some(<<"Failed to create prediction: ", 404, " ", "API Error">>)
    /\ pred = IdlePred

C17_CreateResolvesWithData ==
    (/\ app.op = "create" /\ app.pc \in {"resolved", "rejected"}
     /\ call.pc = "returned" /\ HttpStatus(call) = 200
     /\ JsonOf(call) # Undefined
     /\ Get(JsonOf(call)).data # Undefined
     /\ Get(JsonOf(call)).code \in {Undefined, Some(200)})
    => (/\ app.pc = "resolved"
        /\ pred # IdlePred
        /\ pred.id = Get(Get(JsonOf(call)).data).id
        /\ pred.status = Get(Get(JsonOf(call)).data).status
        /\ pred.model = Get(Get(JsonOf(call)).data).model)

StatusGetFor(rq, id) ==
    /\ IsGet(rq.method)
    /\ id # Undefined
    /\ rq.path = <<"predictions", "/", Get(id), "/", "result">>

\* C18: run() is create followed by wait on the created record: the
\* submission POST is the first request, every later request of the run is
\* a status GET for the created id, no status GET is issued when create
\* fails, and run resolves only with a record whose status is completed or
\* failed.
C18_RunIsCreateThenWait ==
    (app.op = "run")
    => (/\ app.sent.first # Undefined
           => (/\ Get(app.sent.first).method = Some("POST")
               /\ Get(app.sent.first).path[1] = ModelId)
        /\ \A rq \in app.sent.later : StatusGetFor(rq, app.created)
        /\ (app.pc = "rejected" /\ app.created = Undefined)
           => (app.sent.later = {} /\ waiter = IdleWaiter)
        /\ app.pc = "resolved"
           => (app.result = Some(This) /\ TerminalStatus(pred.status)))

-----------------------------------------------------------------------------
(* Claims about the constructor, checked under SpecNew.                     *)

NoCredential(args) ==
    /\ Get(args).apiKey = Undefined
    /\ Get(args).env["WAVESPEED_API_KEY"] = Undefined

\* C19: constructing a WaveSpeed client with no credential argument and no
\* WAVESPEED_API_KEY in the environment throws 'API key is required' in that
\* step: no client object exists afterwards, and no network call has been
\* made then or is made later.
C19_MissingKeyThrows ==
    /\ [][(app.op = "new" /\ app.pc = "idle" /\ app'.pc # "idle"
             /\ NoCredential(app'.args))
          => (/\ app'.pc = "threw"
              /\ Get(app'.result).name = "Error"
              /\ Get(app'.result).message = Some(<<"API key is required. Provide it as a parameter or set the WAVESPEED_API_KEY environment variable.">>)
              /\ client' = NoClient
              /\ call' = IdleCall)]_vars
    /\ [](app.pc = "threw" => (client = NoClient /\ call = IdleCall))

C19_Witness ==
    /\ app.pc = "threw"
    /\ NoCredential(app.args)
    /\ Get(app.args).options.baseUrl # Undefined
    /\ client = NoClient

-----------------------------------------------------------------------------
(* Claims about the backoff, checked under Spec.                            *)

\* C20: the delay waited before retry number n of a fetchWithTimeout call
\* (n = retryCount, 1 for the first retry) is at least 1000 * 2^n and less
\* than 1000 * 2^n + 500 * 2^n milliseconds.
C20_BackoffRange ==
    call.pc = "backoff"
    => LET n == call.retryCount
           t == Get(call.backoffTimer)
       IN  /\ n >= 1
           /\ t.num >= 1000 * (2 ^ n) * t.den
           /\ t.num < (1000 * (2 ^ n) + 500 * (2 ^ n)) * t.den

C20_Witness ==
    /\ call.pc = "backoff"
    /\ call.retryCount = 3
    /\ Get(call.backoffTimer).num > 8000 * Get(call.backoffTimer).den
    /\ Len(call.hist) = 3

-----------------------------------------------------------------------------
(* Claims about the deadline timer and the abort signal, checked under Spec. *)

\* C21: no deadline timer of fetchWithTimeout is leaked.  Once the call has
\* returned or thrown none of its deadline timers is armed, and the only
\* timer that can be armed is that of the current attempt: the timer of
\* attempt k is cleared before that of attempt k+1 is armed.
C21_NoTimerLeak ==
    /\ Settled(call) => call.timers = {}
    /\ \A t \in call.timers : t.id = call.iter
    /\ Cardinality(call.timers) <= 1

C21_Witness ==
    /\ call.pc = "returned"
    /\ call.iter = 3
    /\ call.aborts = 1
    /\ call.timers = {}

\* The deadline of an attempt in milliseconds: the timeout option of the
\* call, else the timeout of the client, which the model keeps in tenths of
\* a second.
FullDeadline ==
    IF call.options.timeout # Undefined
    THEN Get(call.options.timeout)
    ELSE (client.timeout * 1000) \div 10

\* C22: each attempt of fetchWithTimeout runs under its own fresh signal and
\* its own full deadline.  When the deadline passes with the call in flight
\* that attempt is aborted; with retries left the loop goes on, and the next
\* attempt starts on a new signal, not aborted, with the full deadline.
C22_FreshSignalAndDeadline ==
    /\ [](call.pc = "inflight"
          => (/\ Get(call.request).signal = call.iter
              /\ ~call.aborted
              /\ call.timers = {[id |-> call.iter, delay |-> FullDeadline]}))
    /\ [][(call.pc = "inflight" /\ call'.aborts = call.aborts + 1)
          => (/\ Last(call'.hist) = Failed("AbortError")
              /\ call'.aborted
              /\ IF call.retryCount < call.maxRetries
                 THEN call'.pc = "backoff"
                 ELSE call'.pc = "thrown"
                      /\ Get(call'.result).name = "AbortError")]_vars
    /\ [][(call.pc = "backoff" /\ call'.pc = "inflight")
          => (/\ call'.iter = call.iter + 1
              /\ Get(call'.request).signal # Get(call.request).signal)]_vars

C22_Witness ==
    /\ call.pc = "inflight"
    /\ call.iter = 3
    /\ call.aborts = 2
    /\ Len(call.hist) = 2
    /\ call.hist[1] = Failed("AbortError")
    /\ call.hist[2] = Received(429)
    /\ call.options.timeout = Some(100)

-----------------------------------------------------------------------------
(* Claims about the headers of the requests.                                *)

\* C23: every HTTP request issued through fetchWithTimeout, on the first
\* attempt and on retries, carries the header Authorization: Bearer
\* <credential of the client>, whatever headers the caller passes.
C23_AuthorizationOnEveryRequest ==
    call.request # Undefined
    => (/\ "Authorization" \in DOMAIN Get(call.request).headers
        /\ Get(call.request).headers["Authorization"] = "Bearer " \o client.apiKey)

\* C24: every request issued by upload(), called without options or with
\* an options object of the caller, is sent without the injected header
\* content-type: application/json.
C24_UploadWithoutJsonContentType ==
    (app.op = "upload" /\ call.request # Undefined)
    => "contentType" \notin DOMAIN Get(call.request).headers

-----------------------------------------------------------------------------
(* Claims about the configuration of the client, checked under SpecNew.     *)

\* The value the layers give a numeric setting: the option when one is
\* passed, else the number in the environment when there is one, else the
\* default.
Layered(option, envValue, default) ==
    IF option # Undefined THEN Get(option)
    ELSE IF Number(envValue) # Undefined THEN Get(Number(envValue))
    ELSE default

\* The same for the credential, a non-empty string.
LayeredKey(apiKey, envValue) ==
    IF ~FalsyString(apiKey) THEN Get(apiKey) ELSE Get(envValue)

\* C25: the constructor resolves each setting by layers: an explicit value
\* (the credential argument, any numeric pollInterval or timeout option) is
\* used when passed, else the value of the environment when present, else
\* the built-in default.
C25_LayeredConfiguration ==
    app.pc = "constructed"
    => LET a == Get(app.args)
       IN  /\ client.apiKey = LayeredKey(a.apiKey, a.env["WAVESPEED_API_KEY"])
           /\ client.pollInterval
                = Layered(a.options.pollInterval, a.env["WAVESPEED_POLL_INTERVAL"],
                          DefaultPollInterval)
           /\ client.timeout
                = Layered(a.options.timeout, a.env["WAVESPEED_TIMEOUT"],
                          DefaultTimeout)

-----------------------------------------------------------------------------
(* Further claims about the record, checked under SpecReload and SpecWait.  *)

\* C26: the id of a Prediction never changes after the record has been
\* created, whatever snapshots the service returns to reload() and wait().
C26_IdNeverChanges ==
    [][pred # IdlePred => pred'.id = pred.id]_vars

-----------------------------------------------------------------------------
(* Further claims about the retry loop, checked under Spec.                 *)

\* A failure of an attempt after which the call may try again: HTTP 429,
\* HTTP 5xx on a GET, the abort of the deadline, a network failure of fetch.
TransientFailure(o, method) ==
    \/ o = Received(429)
    \/ (GotStatus(o) /\ Is5xx(o.status) /\ IsGet(method))
    \/ o = Failed("AbortError")
    \/ o = Failed("TypeError")

\* C27: fetchWithTimeout issues another attempt only after a transient
\* failure; any other failure of an attempt, an error raised while building
\* the URL from path and base URL included, ends the call after that one
\* attempt, with the error thrown and no backoff wait.
C27_OnlyTransientFailuresRetried ==
    /\ [][(call.pc # "backoff" /\ call'.pc = "backoff")
          => TransientFailure(Last(call'.hist), call'.options.method)]_vars
    /\ [][(call.pc = "inflight" /\ Len(call'.hist) = Len(call.hist) + 1
             /\ Last(call'.hist) = Failed("Error"))
          => (call'.pc = "thrown" /\ call'.backoffTimer = Undefined
              /\ call'.attempts = call.attempts)]_vars
    /\ []((Started /\ ~UrlParses(client.baseUrl))
          => (/\ call.pc = "thrown"
              /\ call.iter = 1
              /\ call.retryCount = 0
              /\ call.backoffTimer = Undefined
              /\ Get(call.result).name = "TypeError"))

-----------------------------------------------------------------------------
(* Further claims about wait(), checked under SpecWait.                     *)

\* C28: in wait() on a non-terminal Prediction every reload, the first one
\* included, is preceded by a sleep of the poll interval (pollInterval * 1000
\* ms): a reload starts only when a poll timer armed with that delay fires.
C28_SleepBeforeEveryReload ==
    [][waiter'.reloads = waiter.reloads + 1
       => (/\ waiter.timers >= 1
           /\ waiter'.timers = waiter.timers - 1
           /\ waiter.delay * 10 = client.pollInterval * 1000)]_vars

WaitSettled == waiter.pc \in {"resolved", "rejected"}

\* C29: the promise returned by wait() is settled at most once: after wait
\* has rejected on a reload that threw, or has resolved, no later step of
\* that wait call resolves, rejects, or resumes the loop.
C29_WaitSettlesOnce ==
    /\ [](waiter.settles <= 1)
    /\ [](WaitSettled
          => (waiter.settles = 1 /\ waiter.timers = 0 /\ waiter.inFlight = 0))
    /\ [][WaitSettled
          => (/\ waiter'.pc = waiter.pc
              /\ waiter'.result = waiter.result
              /\ waiter'.settles = waiter.settles
              /\ waiter'.reloads = waiter.reloads
              /\ waiter'.timers = waiter.timers)]_vars

C29_Witness ==
    /\ waiter.pc = "rejected"
    /\ waiter.settles = 1
    /\ waiter.reloads = 3
    /\ Len(snaps) = 2
    /\ call.pc = "thrown"
    /\ Get(waiter.result).name = "AbortError"

-----------------------------------------------------------------------------
(* Further claims about create(), checked under SpecRun.                    *)

\* C30: for every options object passed to create(), the submission request
\* is sent with the method POST and with the JSON encoding of the input
\* mapping as its body.
C30_SubmissionIsJsonPost ==
    (Creating /\ call.request # Undefined)
    => (/\ Get(call.request).method = Some("POST")
        /\ Get(call.request).body = Some(JSONstringify(Get(app.args).input)))

\* a < b for two delays kept as num / den.
Less(a, b) == a.num * b.den < b.num * a.den

\* C31: within one fetchWithTimeout call the backoff delays grow strictly:
\* whatever the jitter draws, the delay before retry n+1 is greater than the
\* delay slept before retry n.
C31_BackoffGrowsStrictly ==
    (call.pc = "backoff" /\ call.slept # Undefined)
    => Less(Get(call.slept), Get(call.backoffTimer))

C31_Witness ==
    /\ call.pc = "backoff"
    /\ call.retryCount = 3
    /\ call.slept # Undefined
    /\ Get(call.slept).num > 4000 * Get(call.slept).den
    /\ Get(call.backoffTimer).num = 8000 * Get(call.backoffTimer).den

-----------------------------------------------------------------------------
(* Claims about overlapping reloads, checked under SpecOverlap.             *)

\* C36: when reloads of the same Prediction overlap and their responses
\* arrive in any order, against a service whose status never regresses, the
\* record's status never goes from completed or failed back to a
\* non-terminal value.
C36_NoRegressUnderOverlap ==
    [][(app.op = "overlap" /\ TerminalStatus(pred.status))
       => TerminalStatus(pred'.status)]_vars

-----------------------------------------------------------------------------
(* Claims about the client configuration.                                   *)

-----------------------------------------------------------------------------
(* Claims about the retry budget.                                           *)

\* C33: the retry budget of a fetchWithTimeout call is one counter shared by
\* all failure classes: whatever mix of retryable statuses and retryable
\* errors the attempts meet, retryCount never exceeds maxRetries and the
\* number of HTTP attempts never exceeds maxRetries + 1.
C33_OneSharedBudget ==
    Started =>
        /\ call.retryCount <= call.maxRetries
        /\ call.attempts <= call.maxRetries + 1
        /\ Len(call.hist) <= call.maxRetries + 1

C33_Witness ==
    /\ call.pc = "thrown"
    /\ IsGet(call.options.method)
    /\ call.maxRetries = 3 /\ call.retryCount = 3 /\ call.attempts = 4
    /\ call.hist = <<Received(429), Failed("AbortError"), Received(503),
                     Failed("TypeError")>>

\* C34: every fetchWithTimeout call eventually settles, returning a response
\* or throwing, provided each attempt eventually responds, fails or is
\* aborted by its deadline and each backoff timer eventually fires: the retry
\* loop cannot run forever.
C34_EveryCallSettles == Started ~> Settled(call)

C34_Witness ==
    /\ call.pc = "returned"
    /\ call.retryCount = call.maxRetries
    /\ call.attempts = 4
    /\ Last(call.hist) = Received(429)
    /\ \E i \in 1..Len(call.hist) : call.hist[i] = Failed("AbortError")

-----------------------------------------------------------------------------
(* Claims about the submission of a job.                                    *)

\* C35: one create() call never makes the service receive the submission
\* POST twice except after the service answered 429: every attempt of the
\* create call but its last one was answered 429.
C35_SubmittedOnceBut429 ==
    (Creating /\ call.attempts >= 2)
    => \A i \in 1..(call.attempts - 1) :
          i <= Len(call.hist) => call.hist[i] = Received(429)

-----------------------------------------------------------------------------
(* Claims about a reload that fails.                                        *)

\* C37: a reload() that fails, on a non-ok status or on an error thrown by
\* the transport layer, leaves every field of the Prediction as it was
\* before the call: the record is written only in the step in which the
\* reload resolves, with the snapshot it has parsed.
C37_FailedReloadWritesNothing ==
    [][/\ (ReloadPending /\ app'.pc # "resolved") => pred' = pred
       /\ (ReloadPending /\ pred' # pred)
            => (/\ snaps' = Append(snaps, Last(snaps'))
                /\ pred' = ObjectAssign(pred, Prediction(Last(snaps'), client)))]_vars

C37_Witness ==
    /\ app.op = "reload" /\ app.pc = "rejected" /\ app.calls = 1
    /\ call.pc = "thrown"
    /\ call.hist = <<Received(503), Failed("AbortError"), Failed("TypeError"),
                     Failed("Error")>>
    /\ pred = Prediction(CHOOSE d \in Snapshots : d.id = Some("p2")
                                                  /\ d.status = Some("processing"),
                         client)
    /\ snaps = <<>>

-----------------------------------------------------------------------------
(* Claims about the deadline timer outside an attempt.                      *)

\* C38: the deadline of an attempt can fire only while that attempt's HTTP
\* call is in flight: once the attempt has its response or its error, and in
\* particular during the backoff sleep that follows, no deadline timer is
\* armed, so abort() is not invoked then.
C38_NoDeadlineArmedInBackoff ==
    (Started /\ call.pc # "inflight") => call.timers = {}

-----------------------------------------------------------------------------
(* Claims about the end of a wait.                                          *)

\* The step settles the wait.
WaitSettles == ~WaitSettled /\ (waiter'.pc \in {"resolved", "rejected"})

\* C39: against a service that eventually reports completed or failed for
\* the job, a wait() whose reloads all succeed eventually resolves, timers
\* and responses being scheduled fairly; wait settles by no other route than
\* a reload that brought a terminal status (resolve) or a reload that threw
\* (reject); and there is no cap on the polls: while it is not settled, a
\* started wait has a reload in flight or a poll timer armed, whatever the
\* number of polls made.
C39_WaitEndsOnlyByStatusOrError ==
    /\ (waiter.pc = "polling" /\ app.op = "poll")
         ~> (\/ waiter.pc = "resolved" /\ TerminalStatus(pred.status)
             \/ waiter.pc = "rejected")
    /\ [][(app.op = "poll" /\ waiter.pc = "polling" /\ WaitSettles)
          => (/\ Settled(call')
              /\ LET rl == reloadAfterFetch(pred, call', client)
                 IN  \/ (/\ waiter'.pc = "resolved"
                         /\ ~rl.threw
                         /\ TerminalStatus(pred'.status))
                     \/ (/\ waiter'.pc = "rejected"
                         /\ rl.threw
                         /\ waiter'.result = Some(rl.error)))]_vars
    /\ []((app.op = "poll" /\ waiter.pc = "polling")
          => waiter.inFlight + waiter.timers = 1)

C39_Witness ==
    /\ app.op = "poll"
    /\ waiter.pc = "resolved"
    /\ waiter.reloads = MaxPolls
    /\ call.hist = <<Received(429), Received(200)>>
    /\ pred.status = Some("completed")
    /\ app.service = Some("completed")

====
